---- MODULE Spec2Model ----
(***************************************************************************)
(* Video generation orchestration and reconciliation                       *)
(* (backend/app/tools/video_generations.py and the video_generation        *)
(* integration package).                                                   *)
(*                                                                         *)
(* Text (Python str) is modelled as a sequence of string tokens, so that   *)
(* f-string formatting is concatenation, the empty string is <<>>, and     *)
(* "x in text" is token membership.  Optional[str] adds the value None.    *)
(* List positions are 1-based here; the 0-based indices of the code        *)
(* (enumerate, segment_index, input_index) are position - 1.               *)
(***************************************************************************)
EXTENDS Integers, Sequences, FiniteSets, TLC

VARIABLES
    pc,                \* where the caller / the running call is
    state,             \* the storyboard submitted to generate_videos_from_project
    openai_api_key,    \* os.environ.get("OPENAI_API_KEY") of the server process
    gen_segments,      \* its local list segments: the segments built so far
    batch_inputs,      \* the inputs of the generate_batch call of this segment
    batch_done,        \* (k, outcome) of its generate_one tasks, as they finished
    batch_calls,       \* the generate_batch calls made so far: segment, inputs
    origin,            \* the tree generate_videos_from_project returned
    tree,              \* the VideoGenerations value the caller holds
    video_generations, \* the argument object of the running poll pass
    disk,              \* artifact files on disk: path -> "full" | "partial"
    disk_before,       \* the files that existed when the download phase began
    status_pending,    \* check_status tasks of the gather not yet finished
    status_results,    \* (seg_idx, res_idx) -> (updated_video, error)
    status_calls,      \* service.get_status invocations of this pass, per leaf
    updated_videos,    \* dict built from status_results
    download_pending,  \* download_one tasks of the gather not yet finished
    download_results,  \* (seg_idx, res_idx) -> error text | None | Uncaught
    download_calls,    \* _download_video invocations of this pass, per leaf
    download_requests, \* the GET request of each download: its url and headers
    finished,          \* (phase, leaf) of the tasks of this pass, as they finished
    result,            \* the tree the pass returned (NoTree before it returns)
    passes,            \* reconciliation passes run so far
    fn_name,           \* the pure function under test
    fn_input,          \* its argument
    fn_result,         \* its return value
    svc_providers,     \* VideoGenerationService._providers: name -> adapter instance
    svc_constructed,   \* (name, instance) of every adapter constructed so far
    svc_tasks,         \* generate_one tasks of generate_batch calls, not yet started
    svc_inflight,      \* calls awaiting the adapter they were delegated to
    svc_log,           \* (name, instance) of every finished delegated call
    svc_issued,        \* calls made on the service so far
    svc_calls,         \* (provider, credentials present, exception) of the calls
                       \* that resolved their adapter
    poll_interval,     \* wait_for_completion: its arguments ...
    timeout,
    elapsed,           \* ... its local elapsed (a float)
    exact_elapsed,     \* polls * poll_interval, without rounding
    polls,             \* get_status calls it has made
    wait_result        \* "waiting", or how it ended and with which video

passVars == <<video_generations, disk_before, status_pending, status_results,
              status_calls, updated_videos, download_pending, download_results,
              download_calls, download_requests, finished, result>>
fnVars == <<fn_name, fn_input, fn_result>>
genVars == <<gen_segments, batch_inputs, batch_done, batch_calls>>
svcVars == <<svc_providers, svc_constructed, svc_tasks, svc_inflight, svc_log,
             svc_issued, svc_calls>>
waitVars == <<poll_interval, timeout, elapsed, exact_elapsed, polls, wait_result>>
vars == <<pc, state, openai_api_key, origin, tree, disk, passes, genVars, passVars, fnVars,
          svcVars, waitVars>>

(***************************************************************************)
(* Bounds                                                                  *)
(***************************************************************************)
\* Segments of a storyboard, reconciliation passes of one run, and the
\* length of the status lists the derivation functions are applied to.
\* A storyboard has at most two generation inputs in all (Storyboards): each
\* leaf multiplies the provider replies and download outcomes of every pass.
MaxSegments == 2
MaxPasses == 2
MaxStatusLen == 3
\* Durations asked for, in seconds: -MaxDuration .. MaxDuration.
MaxDuration == 14
\* Calls made on one VideoGenerationService.
MaxCalls == 2

(***************************************************************************)
(* Text and Optional values                                                *)
(***************************************************************************)
None == <<"<None>">>
Truthy(s) == s # None /\ s # <<>>
Contains(text, token) == text # None /\ \E i \in 1..Len(text) : text[i] = token
Digits == <<"0", "1", "2", "3", "4", "5", "6", "7", "8", "9">>
str(n) == <<Digits[n + 1]>>

LeafStatuses == {"queued", "in_progress", "completed", "failed"}
SegmentStatuses == {"pending", "in_progress", "completed", "failed"}
Providers == {"sora", "veo"}

\* GeneratedVideo (types.py lines 71-88): no caller in the repository passes
\* selected, so a record that is constructed has the field's default, False.
GeneratedVideo(id, status, created_at, video_url, error) ==
    [id |-> id, status |-> status, created_at |-> created_at,
     video_url |-> video_url, selected |-> FALSE, error |-> error]
GenerationResult(input_index, provider, video) ==
    [input_index |-> input_index, provider |-> provider, video |-> video]
SegmentGeneration(segment_index, scene_description, status, generation_results) ==
    [segment_index |-> segment_index, scene_description |-> scene_description,
     status |-> status, generation_results |-> generation_results]
VideoGenerations(project_id, created_at, status, segments) ==
    [project_id |-> project_id, created_at |-> created_at,
     status |-> status, segments |-> segments]

NoTree == [project_id |-> None]

(***************************************************************************)
(* Status derivation                                                       *)
(***************************************************************************)
_derive_segment_status_any_first(results) ==
    LET statuses == [i \in 1..Len(results) |-> results[i].video.status]
    IN  IF results = <<>> THEN "pending"
        ELSE IF \E i \in 1..Len(statuses) : statuses[i] \in {"in_progress", "queued"}
             THEN "in_progress"
        ELSE IF \E i \in 1..Len(statuses) : statuses[i] = "failed" THEN "failed"
        ELSE IF \A i \in 1..Len(statuses) : statuses[i] = "completed" THEN "completed"
        ELSE "pending"

_derive_segment_status_any_completed(results) ==
    LET statuses == [i \in 1..Len(results) |-> results[i].video.status]
    IN  IF results = <<>> THEN "pending"
        ELSE IF \E i \in 1..Len(statuses) : statuses[i] = "completed" THEN "completed"
        ELSE IF \E i \in 1..Len(statuses) : statuses[i] = "failed" THEN "failed"
        ELSE IF \E i \in 1..Len(statuses) : statuses[i] \in {"in_progress", "queued"}
             THEN "in_progress"
        ELSE "pending"

_derive_segment_status(results) ==
    LET statuses == [i \in 1..Len(results) |-> results[i].video.status]
    IN  IF results = <<>> THEN "pending"
        ELSE IF \A i \in 1..Len(statuses) : statuses[i] = "completed" THEN "completed"
        ELSE IF \E i \in 1..Len(statuses) : statuses[i] = "failed" THEN "failed"
        ELSE IF \E i \in 1..Len(statuses) : statuses[i] \in {"in_progress", "queued"}
             THEN "in_progress"
        ELSE "pending"

_derive_overall_status(segments) ==
    LET statuses == [i \in 1..Len(segments) |-> segments[i].status]
    IN  IF segments = <<>> THEN "pending"
        ELSE IF \A i \in 1..Len(statuses) : statuses[i] = "completed" THEN "completed"
        ELSE IF \E i \in 1..Len(statuses) : statuses[i] = "failed" THEN "failed"
        ELSE IF \E i \in 1..Len(statuses) : statuses[i] = "in_progress" THEN "in_progress"
        ELSE "pending"

(***************************************************************************)
(* Provider adapters: what a creation call and a status poll return        *)
(***************************************************************************)
BASE_URL == <<"https://api.openai.com/v1">>

\* Time is counted in seconds since the epoch; isoformat is
\* datetime.fromtimestamp(t, tz=utc).isoformat().
isoformat(t) == <<"1970-01-01T00:00:0">> \o str(t) \o <<"+00:00">>

Sora_parse_video_response_always_url(data, now) ==
    GeneratedVideo(data.id, data.status,
                   IF Len(data.created_at) = 1 THEN isoformat(data.created_at[1])
                   ELSE isoformat(now),
                   BASE_URL \o <<"/videos/">> \o data.id \o <<"/content">>,
                   data.failure_reason)

\* SoraProvider._parse_video_response; data is the JSON payload, in which
\* created_at is <<t>> for a Unix timestamp t and <<>> when it is missing;
\* now is the time of the call.
Sora_parse_video_response(data, now) ==
    GeneratedVideo(data.id, data.status,
                   IF Len(data.created_at) = 1 THEN isoformat(data.created_at[1])
                   ELSE isoformat(now),
                   IF data.status = "completed"
                   THEN BASE_URL \o <<"/videos/">> \o data.id \o <<"/content">>
                   ELSE None,
                   data.failure_reason)

\* VeoProvider._parse_operation_to_video.  response is the operation's
\* response: absent (None), or its generated_videos, each one's uri or None.
\* _operations is the adapter instance's map operation name -> created_at.
NoResponse == [present |-> FALSE, generated_videos |-> <<>>]
Response(uris) == [present |-> TRUE, generated_videos |-> uris]
Veo_parse_operation_to_video(_operations, operation_name, response, error, now) ==
    LET created_at == IF operation_name \in DOMAIN _operations
                      THEN _operations[operation_name]
                      ELSE isoformat(now)
    IN  IF Truthy(error)
        THEN GeneratedVideo(operation_name, "failed", created_at, None, error)
        ELSE IF ~response.present
             THEN GeneratedVideo(operation_name, "in_progress", created_at, None, None)
        ELSE IF Len(response.generated_videos) > 0
             THEN GeneratedVideo(operation_name, "completed", created_at,
                                 response.generated_videos[1], None)
        ELSE GeneratedVideo(operation_name, "in_progress", created_at, None, None)

\* exceptions.py: the message text of the exceptions (str(e)).
VideoNotFoundError(provider, video_id) ==
    <<"Video not found: ">> \o video_id \o <<" (provider: ", provider, ")">>
ProviderAuthenticationError(provider, details) ==
    <<"Authentication failed for ", provider>>
    \o (IF Truthy(details) THEN <<": ">> \o details ELSE <<>>)
VideoGenerationRequestError(provider, status_code, details) ==
    <<"Video generation request failed for ", provider>>
    \o (IF Truthy(status_code) THEN <<" (status ">> \o status_code \o <<")">> ELSE <<>>)
    \o (IF Truthy(details) THEN <<": ">> \o details ELSE <<>>)

\* The replies of a provider's API to one status poll.
\* Sora: an HTTP response (status code, JSON payload), or an httpx transport
\* exception; str() of an httpx timeout is the empty string.  The payload's
\* created_at is the time the API created the job: second 0, when the
\* storyboard was submitted.
SoraReplies ==
    {[kind |-> "http", code |-> <<"200">>, status |-> s, created_at |-> <<0>>,
      failure_reason |-> IF s = "failed" THEN <<"content policy">> ELSE None,
      detail |-> None]
        : s \in LeafStatuses}
    \cup {[kind |-> "http", code |-> <<"404">>, status |-> "queued",
           created_at |-> <<>>, failure_reason |-> None, detail |-> None],
          [kind |-> "timeout", code |-> None, status |-> "queued",
           created_at |-> <<>>, failure_reason |-> None, detail |-> None]}
\* Every HTTP status the API may answer a status poll with, each with every
\* payload status; detail is the error message of a non-200 body, if any.
HttpStatusCodes ==
    {"200", "201", "204", "400", "401", "403", "404", "409", "429", "500", "503"}
SoraStatusResponses ==
    {[kind |-> "http", code |-> <<c>>, status |-> s, created_at |-> <<0>>,
      failure_reason |-> IF s = "failed" THEN <<"content policy">> ELSE None,
      detail |-> d]
        : c \in HttpStatusCodes, s \in LeafStatuses, d \in {None, <<"try later">>}}
\* Veo: the long-running operation (done, error, response), or an SDK exception.
VeoUri(video_id) == <<"https://veo.example/">> \o video_id
VeoReplies(video_id) ==
    {[kind |-> "operation", done |-> FALSE, error |-> None, response |-> NoResponse],
     [kind |-> "operation", done |-> TRUE, error |-> <<"quota exceeded">>,
      response |-> NoResponse],
     [kind |-> "operation", done |-> TRUE, error |-> None,
      response |-> Response(<<VeoUri(video_id)>>)],
     [kind |-> "operation", done |-> TRUE, error |-> None, response |-> Response(<<None>>)],
     [kind |-> "operation", done |-> TRUE, error |-> None, response |-> Response(<<>>)],
     [kind |-> "exception", done |-> FALSE, error |-> <<"503", " unavailable">>,
      response |-> NoResponse]}
\* Every long-running operation operations.get may return: done or not, with
\* or without an error, and with each kind of response.
VeoOperations(video_id) ==
    {[kind |-> "operation", done |-> d, error |-> e, response |-> r] :
        d \in BOOLEAN, e \in {None, <<"quota exceeded">>},
        r \in {NoResponse, Response(<<>>), Response(<<None>>),
               Response(<<VeoUri(video_id)>>)}}
Replies(provider, video_id) ==
    IF provider = "sora" THEN SoraReplies ELSE VeoReplies(video_id)

\* What a status poll gives: the GeneratedVideo it returns, or the exception
\* it raises (raised, with str(e) in error).
NoVideo == GeneratedVideo(None, "queued", None, None, None)
Returned(video) == [raised |-> FALSE, video |-> video, error |-> None]
Raised(message) == [raised |-> TRUE, video |-> NoVideo, error |-> message]

Sora_get_status_accepting_201(video_id, reply, now) ==
    IF reply.kind = "timeout" THEN Raised(<<>>)
    ELSE IF reply.code = <<"404">> THEN Raised(VideoNotFoundError("sora", video_id))
    ELSE IF reply.code = <<"401">>
         THEN Raised(ProviderAuthenticationError("sora", <<"Invalid API key">>))
    ELSE IF reply.code # <<"200">> /\ reply.code # <<"201">>
         THEN Raised(VideoGenerationRequestError("sora", reply.code, reply.detail))
    ELSE Returned(Sora_parse_video_response(
                      [id |-> video_id, status |-> reply.status,
                       created_at |-> reply.created_at,
                       failure_reason |-> reply.failure_reason], now))
Sora_get_status(video_id, reply, now) ==
    IF reply.kind = "timeout" THEN Raised(<<>>)
    ELSE IF reply.code = <<"404">> THEN Raised(VideoNotFoundError("sora", video_id))
    ELSE IF reply.code = <<"401">>
         THEN Raised(ProviderAuthenticationError("sora", <<"Invalid API key">>))
    ELSE IF reply.code # <<"200">>
         THEN Raised(VideoGenerationRequestError("sora", reply.code, reply.detail))
    ELSE Returned(Sora_parse_video_response(
                      [id |-> video_id, status |-> reply.status,
                       created_at |-> reply.created_at,
                       failure_reason |-> reply.failure_reason], now))

Veo_get_status(_operations, video_id, reply, now) ==
    IF reply.kind = "exception"
    THEN IF Contains(reply.error, "404") \/ Contains(reply.error, "not found")
         THEN Raised(VideoNotFoundError("veo", video_id))
         ELSE IF Contains(reply.error, "401") \/ Contains(reply.error, "403")
         THEN Raised(ProviderAuthenticationError("veo", reply.error))
         ELSE Raised(VideoGenerationRequestError("veo", None, reply.error))
    ELSE IF reply.done /\ Truthy(reply.error)
         THEN Returned(Veo_parse_operation_to_video(_operations, video_id, NoResponse,
                                                    reply.error, now))
    ELSE IF reply.done
         THEN Returned(Veo_parse_operation_to_video(_operations, video_id,
                                                    reply.response, None, now))
    ELSE Returned(Veo_parse_operation_to_video(_operations, video_id, NoResponse,
                                               None, now))

\* VideoGenerationService.get_status: routes to the adapter of the provider;
\* _operations is the operation map of the service's Veo adapter.
get_status(_operations, provider, video_id, reply, now) ==
    IF provider = "sora" THEN Sora_get_status(video_id, reply, now)
    ELSE Veo_get_status(_operations, video_id, reply, now)

(***************************************************************************)
(* Generation Orchestrator                                                 *)
(***************************************************************************)
\* A storyboard: per segment its scene_description and the providers of its
\* generation_inputs.
Range(f) == {f[i] : i \in DOMAIN f}
SeqsUpTo(S, n) == UNION {[1..k -> S] : k \in 0..n}
RECURSIVE SumLen(_)
SumLen(segs) == IF segs = <<>> THEN 0 ELSE Len(Head(segs)) + SumLen(Tail(segs))
InputLists == SeqsUpTo(Providers, 2)
Storyboards ==
    {[i \in 1..Len(gi) |-> [scene_description |-> <<"scene ", Digits[i]>>,
                            generation_inputs |-> gi[i]]]
        : gi \in {g \in SeqsUpTo(InputLists, MaxSegments) : SumLen(g) <= 2}}

\* Duration snapping.  min(supported, key=lambda x: abs(x - duration)) is the
\* first element of the list at the least distance.
abs(x) == IF x < 0 THEN -x ELSE x
next_supported(supported, duration) ==
    IF \E i \in 1..Len(supported) : supported[i] >= duration
    THEN supported[CHOOSE i \in 1..Len(supported) :
                       /\ supported[i] >= duration
                       /\ \A j \in 1..Len(supported) :
                              supported[j] >= duration => supported[i] <= supported[j]]
    ELSE supported[Len(supported)]
closest(supported, duration) ==
    LET i == CHOOSE i \in 1..Len(supported) :
                 /\ \A j \in 1..Len(supported) :
                        abs(supported[i] - duration) <= abs(supported[j] - duration)
                 /\ \A j \in 1..(i - 1) :
                        abs(supported[j] - duration) > abs(supported[i] - duration)
    IN  supported[i]

\* SoraProvider._validate_duration and VeoProvider._validate_duration: the
\* same code over each adapter's SUPPORTED_DURATIONS.
Sora_SUPPORTED_DURATIONS == <<4, 8, 12>>
Veo_SUPPORTED_DURATIONS == <<4, 6, 8>>
SUPPORTED_DURATIONS(provider) ==
    IF provider = "sora" THEN Sora_SUPPORTED_DURATIONS ELSE Veo_SUPPORTED_DURATIONS
_validate_duration(supported, duration) ==
    IF \A i \in 1..Len(supported) : supported[i] # duration
    THEN closest(supported, duration)
    ELSE duration

\* _get_validated_duration.  Segment.duration is a float; it is given here in
\* half seconds (duration_x2), and round is Python's round of x.0 and x.5:
\* to the nearest integer, halves to the even one.
round(duration_x2) ==
    IF duration_x2 % 2 = 0 THEN duration_x2 \div 2
    ELSE LET below == (duration_x2 - 1) \div 2
         IN  IF below % 2 = 0 THEN below ELSE below + 1
_get_validated_duration(duration_x2) ==
    LET duration_int == round(duration_x2)
        supported == <<4, 6, 8>>
    IN  closest(supported, duration_int)

\* The duration generate_videos_from_project has an adapter submit: the
\* config's duration (lines 194-201) put through the adapter's
\* _validate_duration (sora.py line 119, veo.py line 170).
submitted_duration(provider, duration_x2) ==
    _validate_duration(SUPPORTED_DURATIONS(provider),
                       _get_validated_duration(duration_x2))

\* The id the provider assigns to the job created for input input_index of
\* segment segment_index: opaque, one per creation call.
ProviderId(provider, segment_index, input_index) ==
    <<provider, "_job_">> \o str(segment_index) \o <<"_">> \o str(input_index)

\* The replies of a provider's API to one creation call.  Sora: the HTTP
\* response, whose payload carries the status and creation time the API set.
\* Veo: the SDK returns the operation or raises.
SoraCreateStatuses == {"queued", "in_progress"}
SoraCreateReplies ==
    {[kind |-> "http", code |-> <<"200">>, status |-> s, error |-> None]
        : s \in SoraCreateStatuses}
    \cup {[kind |-> "http", code |-> <<"500">>, status |-> "queued",
           error |-> <<"server error">>]}
VeoCreateReplies ==
    {[kind |-> "operation", code |-> None, status |-> "in_progress", error |-> None],
     [kind |-> "exception", code |-> None, status |-> "in_progress",
      error |-> <<"429", " quota exceeded">>]}
CreateReplies(provider) ==
    IF provider = "sora" THEN SoraCreateReplies ELSE VeoCreateReplies

\* SoraProvider.generate, lines 200-215: what the call gives for a reply.
Sora_generate(id, reply, now) ==
    IF reply.code = <<"401">>
    THEN Raised(ProviderAuthenticationError("sora", <<"Invalid API key">>))
    ELSE IF reply.code # <<"200">> /\ reply.code # <<"201">>
         THEN Raised(VideoGenerationRequestError("sora", reply.code, reply.error))
    ELSE Returned(Sora_parse_video_response(
                      [id |-> id, status |-> reply.status, created_at |-> <<now>>,
                       failure_reason |-> None], now))

\* VeoProvider.generate, lines 203-228.
Veo_generate(id, reply, now) ==
    IF reply.kind = "exception"
    THEN IF \/ Contains(reply.error, "401")
            \/ Contains(reply.error, "403")
            \/ Contains(reply.error, "authentication")
         THEN Raised(ProviderAuthenticationError("veo", reply.error))
         ELSE Raised(VideoGenerationRequestError("veo", None, reply.error))
    ELSE Returned(GeneratedVideo(id, "in_progress", isoformat(now), None, None))

\* VideoGenerationService.generate: routes to the adapter of the provider.
generate(provider, id, reply, now) ==
    IF provider = "sora" THEN Sora_generate(id, reply, now)
    ELSE Veo_generate(id, reply, now)

\* VideoGenerationService.generate_batch.  inputs is the list of
\* (provider, input_index); done lists, in the order the generate_one tasks
\* finished, (k, what the generate call of inputs[k] gave).  asyncio.gather
\* returns the results in the order of the tasks it was given.
OutcomeOf(done, k) == (CHOOSE j \in 1..Len(done) : done[j][1] = k)
generate_batch_in_completion_order(inputs, done) ==
    [j \in 1..Len(inputs) |->
        GenerationResult(inputs[j][2], inputs[j][1], done[j][2].video)]
generate_batch(inputs, done) ==
    [k \in 1..Len(inputs) |->
        GenerationResult(inputs[k][2], inputs[k][1], done[OutcomeOf(done, k)][2].video)]

\* asyncio.gather(*tasks) without return_exceptions: it returns once every one
\* of the n tasks finished and none raised, and raises as soon as one raised.
gather_returns_partial(done, n) == Len(done) = n
gather_returns(done, n) ==
    /\ Len(done) = n
    /\ \A j \in 1..Len(done) : ~done[j][2].raised
gather_raises(done) == \E j \in 1..Len(done) : done[j][2].raised

\* Lines 203-207: the (provider input, input_index) pairs of a segment.
inputs_with_indices_from_one(segment) ==
    [q \in 1..Len(segment.generation_inputs) |-> <<segment.generation_inputs[q], q>>]
inputs_with_indices(segment) ==
    [q \in 1..Len(segment.generation_inputs) |-> <<segment.generation_inputs[q], q - 1>>]

(***************************************************************************)
(* Artifact files                                                          *)
(***************************************************************************)
project_root == <<"/srv">>

get_video_local_path_by_input(root, project_id, segment_index, input_index, video_id) ==
    root \o <<"/data">>
         \o <<"/video_generations_result_">> \o project_id
         \o <<"/generation_result_">> \o str(input_index)
         \o <<"/generated_video.mp4">>
get_video_local_path(root, project_id, segment_index, input_index, video_id) ==
    root \o <<"/data">>
         \o <<"/video_generations_result_">> \o project_id
         \o <<"/segment_">> \o str(segment_index)
         \o <<"/generation_result_">> \o str(input_index)
         \o <<"/generated_video_">> \o video_id \o <<".mp4">>

NoFiles == [p \in {} |-> "full"]
exists(d, path) == path \in DOMAIN d

\* The value of OPENAI_API_KEY where the variable is set.
ConfiguredKey == <<"sk-key">>

\* download_one, line 432: the api_key it hands to _download_video.
download_one_api_key(provider, key) == IF provider = "sora" THEN key ELSE None

\* _download_video, lines 324-330: the headers of the GET request.
NoHeaders == [h \in {} |-> None]
_download_video_headers_without_auth(provider, api_key) == NoHeaders
_download_video_headers(provider, api_key) ==
    IF provider = "sora" /\ Truthy(api_key)
    THEN "Authorization" :> (<<"Bearer ">> \o api_key)
    ELSE NoHeaders

\* _download_video: what the transfer does is the environment's choice.
\*   ok          the response arrives and the file is written
\*   http_error  raise_for_status raises httpx.HTTPStatusError
\*   file_error  the write raises OSError after open() created the file
\*   uncaught    client.get raises an exception that is none of
\*               httpx.HTTPStatusError, httpx.RequestError, OSError
\*               (httpx.InvalidURL for a malformed url)
DownloadOutcomes == {"ok", "http_error", "file_error", "uncaught"}
Uncaught == <<"<raised>">>
_download_video_returns(outcome) ==
    CASE outcome = "ok" -> None
      [] outcome = "http_error" -> <<"HTTP error ", "404", ": ", "Not found">>
      [] outcome = "file_error" -> <<"File error: ", "No space left on device">>
      [] outcome = "uncaught" -> Uncaught
_download_video_writes(d, output_path, outcome) ==
    CASE outcome = "ok" -> (output_path :> "full") @@ d
      [] outcome = "file_error" -> (output_path :> "partial") @@ d
      [] OTHER -> d

(***************************************************************************)
(* Reconciliation Engine: poll_and_save_video_generations                  *)
(***************************************************************************)
EmptyMap == [k \in {} |-> None]
Get(map, key, default) == IF key \in DOMAIN map THEN map[key] ELSE default

\* (seg_idx, res_idx) of every leaf, as enumerate yields them.
LeafKeys(vg) ==
    UNION {{<<p - 1, q - 1>> : q \in 1..Len(vg.segments[p].generation_results)}
              : p \in 1..Len(vg.segments)}
ResultAt(vg, key) == vg.segments[key[1] + 1].generation_results[key[2] + 1]

\* Lines 374-379: the leaves whose status is refreshed.
videos_to_check_all(vg) == LeafKeys(vg)
videos_to_check(vg) ==
    {key \in LeafKeys(vg) : ResultAt(vg, key).video.status \in {"queued", "in_progress"}}

\* check_status: one service.get_status call, every Exception caught.  The
\* service is the one the pass constructed (line 366), so the operation map
\* of its Veo adapter is empty.
check_status(res, reply, now) ==
    get_status(EmptyMap, res.provider, res.video.id, reply, now)

\* Lines 397-409: the dict of refreshed videos.
model_copy_error(video, error) == [video EXCEPT !.error = error]
\* The leaves in the order the tasks were created for them (enumerate order).
KeyBefore(a, b) == a[1] < b[1] \/ (a[1] = b[1] /\ a[2] < b[2])
InTaskOrder(keys) ==
    CHOOSE tasks \in [1..Cardinality(keys) -> keys] :
        \A i, j \in 1..Cardinality(keys) : i < j => KeyBefore(tasks[i], tasks[j])
build_updated_videos_by_completion_order(vg, results) ==
    LET tasks == InTaskOrder(DOMAIN results)
        taken(key) == finished[CHOOSE k \in 1..Len(tasks) : tasks[k] = key][2]
        keys == {key \in DOMAIN results :
                    \/ ~results[taken(key)].raised
                    \/ Truthy(results[taken(key)].error)}
    IN  [key \in keys |->
            IF ~results[taken(key)].raised THEN results[taken(key)].video
            ELSE model_copy_error(ResultAt(vg, key).video,
                                  <<"Status check failed: ">>
                                  \o results[taken(key)].error)]
build_updated_videos(vg, results) ==
    LET keys == {key \in DOMAIN results :
                    \/ ~results[key].raised
                    \/ Truthy(results[key].error)}
    IN  [key \in keys |->
            IF ~results[key].raised THEN results[key].video
            ELSE model_copy_error(ResultAt(vg, key).video,
                                  <<"Status check failed: ">> \o results[key].error)]

\* Lines 411-425: the leaves to download, with the path each is saved to.
local_path_of(vg, updated, key) ==
    get_video_local_path(project_root, vg.project_id, key[1],
                         ResultAt(vg, key).input_index,
                         Get(updated, key, ResultAt(vg, key).video).id)
videos_to_download_ignoring_disk(vg, updated, d) ==
    {key \in LeafKeys(vg) :
        LET video == Get(updated, key, ResultAt(vg, key).video)
        IN  video.status = "completed" /\ Truthy(video.video_url)}
videos_to_download_without_url(vg, updated, d) ==
    {key \in LeafKeys(vg) :
        LET video == Get(updated, key, ResultAt(vg, key).video)
        IN  /\ video.status = "completed"
            /\ ~exists(d, local_path_of(vg, updated, key))}
videos_to_download_without_error(vg, updated, d) ==
    {key \in LeafKeys(vg) :
        LET video == Get(updated, key, ResultAt(vg, key).video)
        IN  /\ video.status = "completed"
            /\ Truthy(video.video_url)
            /\ ~Truthy(video.error)
            /\ ~exists(d, local_path_of(vg, updated, key))}
videos_to_download_whatever_status(vg, updated, d) ==
    {key \in LeafKeys(vg) : ~exists(d, local_path_of(vg, updated, key))}
videos_to_download(vg, updated, d) ==
    {key \in LeafKeys(vg) :
        LET video == Get(updated, key, ResultAt(vg, key).video)
        IN  /\ video.status = "completed"
            /\ Truthy(video.video_url)
            /\ ~exists(d, local_path_of(vg, updated, key))}

\* Lines 447-451: the errors the downloads returned.
build_download_errors(results) ==
    [key \in {k \in DOMAIN results : Truthy(results[k])} |-> results[key]]

\* Lines 457-475: the leaf (seg_idx, res_idx) of the returned tree.
updated_result(vg, updated, download_errors, key) ==
    LET res == ResultAt(vg, key)
        video == Get(updated, key, res.video)
    IN  GenerationResult(
            res.input_index, res.provider,
            IF key \in DOMAIN download_errors
            THEN model_copy_error(video, <<"Download failed: ">> \o download_errors[key])
            ELSE video)

\* Lines 456-475: the result list of segment seg_idx of the returned tree.
RECURSIVE DropFailed(_)
DropFailed(results) ==
    IF results = <<>> THEN <<>>
    ELSE IF Head(results).video.status = "failed" THEN DropFailed(Tail(results))
    ELSE <<Head(results)>> \o DropFailed(Tail(results))
updated_results_dropping_failed(vg, updated, download_errors, seg_idx) ==
    DropFailed([q \in 1..Len(vg.segments[seg_idx + 1].generation_results) |->
                   updated_result(vg, updated, download_errors, <<seg_idx, q - 1>>)])
updated_results(vg, updated, download_errors, seg_idx) ==
    [q \in 1..Len(vg.segments[seg_idx + 1].generation_results) |->
        updated_result(vg, updated, download_errors, <<seg_idx, q - 1>>)]

\* Lines 453-496: the tree the pass returns.
build_result_keeping_status(vg, updated, download_errors) ==
    LET segmentOf(p) ==
            LET segment == vg.segments[p]
                results == updated_results(vg, updated, download_errors, p - 1)
            IN  SegmentGeneration(segment.segment_index, segment.scene_description,
                                  segment.status, results)
        updated_segments == [p \in 1..Len(vg.segments) |-> segmentOf(p)]
    IN  VideoGenerations(vg.project_id, vg.created_at, vg.status, updated_segments)
build_result(vg, updated, download_errors) ==
    LET segmentOf(p) ==
            LET segment == vg.segments[p]
                results == updated_results(vg, updated, download_errors, p - 1)
            IN  SegmentGeneration(segment.segment_index, segment.scene_description,
                                  _derive_segment_status(results), results)
        updated_segments == [p \in 1..Len(vg.segments) |-> segmentOf(p)]
    IN  VideoGenerations(vg.project_id, vg.created_at,
                         _derive_overall_status(updated_segments), updated_segments)

\* What the pass leaves in the object it was given: it builds new values and
\* assigns to no field of video_generations.
input_after_pass_in_place(vg, returned) ==
    [vg EXCEPT !.status = returned.status, !.segments = returned.segments]
input_after_pass(vg, returned) == vg

(***************************************************************************)
(* Generation Service: the adapter cache                                   *)
(***************************************************************************)
\* The provider names a call may carry: the two adapters, and a name that is
\* neither (the Literal annotation is not enforced at run time).
ProviderNames == Providers \cup {"other"}
ProviderNotFoundError(provider_name) == <<"Unknown video provider: ", provider_name>>
\* The detail the constructors of the adapters give (sora.py 44-46, veo.py 44-47).
KeyNotSet(provider_name) ==
    IF provider_name = "sora"
    THEN <<"OPENAI_API_KEY environment variable not set">>
    ELSE <<"GOOGLE_API_KEY or GOOGLE_CLOUD_PROJECT environment variable not set">>

\* VideoGenerationService._get_provider.  new_instance is the adapter the
\* constructor would build; it raises ProviderAuthenticationError when the
\* provider's credentials are not set (key_set is false).  Gives the new
\* _providers, the instance returned (constructed now or not), or the
\* message of the exception raised.
Provided(_providers, instance, constructed) ==
    [_providers |-> _providers, instance |-> instance,
     constructed |-> constructed, raised |-> None]
NotProvided(_providers, message) ==
    [_providers |-> _providers, instance |-> <<>>,
     constructed |-> FALSE, raised |-> message]
_get_provider_uncached(_providers, provider_name, new_instance, key_set) ==
    IF provider_name \notin Providers
    THEN NotProvided(_providers, ProviderNotFoundError(provider_name))
    ELSE IF ~key_set
         THEN NotProvided(_providers,
                          ProviderAuthenticationError(provider_name,
                                                      KeyNotSet(provider_name)))
    ELSE Provided((provider_name :> new_instance) @@ _providers, new_instance, TRUE)
_get_provider_deferring_credentials(_providers, provider_name, new_instance, key_set) ==
    IF provider_name \notin DOMAIN _providers
    THEN IF provider_name \in Providers
         THEN Provided((provider_name :> new_instance) @@ _providers, new_instance, TRUE)
         ELSE NotProvided(_providers, ProviderNotFoundError(provider_name))
    ELSE Provided(_providers, _providers[provider_name], FALSE)
_get_provider(_providers, provider_name, new_instance, key_set) ==
    IF provider_name \notin DOMAIN _providers
    THEN IF provider_name \in Providers
         THEN IF key_set
              THEN Provided((provider_name :> new_instance) @@ _providers,
                            new_instance, TRUE)
              ELSE NotProvided(_providers,
                               ProviderAuthenticationError(provider_name,
                                                           KeyNotSet(provider_name)))
         ELSE NotProvided(_providers, ProviderNotFoundError(provider_name))
    ELSE Provided(_providers, _providers[provider_name], FALSE)

\* The methods that resolve the adapter and await it.
DelegatingMethods == {"generate", "get_status", "get_video_url", "wait_for_completion"}

IdleService ==
    /\ svc_providers = EmptyMap
    /\ svc_constructed = {}
    /\ svc_tasks = {}
    /\ svc_inflight = {}
    /\ svc_log = {}
    /\ svc_issued = 0
    /\ svc_calls = {}

(***************************************************************************)
(* VideoProvider.wait_for_completion: Python floats                        *)
(*                                                                         *)
(* A number is (-1)^neg * bits * 2^lsb, bits being a binary numeral, most  *)
(* significant bit first.  A float is an IEEE 754 binary64: a number with  *)
(* at most 53 significant bits.  Sums are first taken exactly and then     *)
(* rounded to nearest, ties to even, as the addition of two floats is.     *)
(***************************************************************************)
Zeros(n) == [i \in 1..n |-> 0]
HexBits(digit) ==
    CASE digit = "0" -> <<0, 0, 0, 0>> [] digit = "1" -> <<0, 0, 0, 1>>
      [] digit = "2" -> <<0, 0, 1, 0>> [] digit = "3" -> <<0, 0, 1, 1>>
      [] digit = "4" -> <<0, 1, 0, 0>> [] digit = "5" -> <<0, 1, 0, 1>>
      [] digit = "6" -> <<0, 1, 1, 0>> [] digit = "7" -> <<0, 1, 1, 1>>
      [] digit = "8" -> <<1, 0, 0, 0>> [] digit = "9" -> <<1, 0, 0, 1>>
      [] digit = "a" -> <<1, 0, 1, 0>> [] digit = "b" -> <<1, 0, 1, 1>>
      [] digit = "c" -> <<1, 1, 0, 0>> [] digit = "d" -> <<1, 1, 0, 1>>
      [] digit = "e" -> <<1, 1, 1, 0>> [] digit = "f" -> <<1, 1, 1, 1>>
RECURSIVE HexToBits(_)
HexToBits(digits) ==
    IF digits = <<>> THEN <<>> ELSE HexBits(Head(digits)) \o HexToBits(Tail(digits))

\* float.fromhex("0x1.<digits>p<exponent>"), digits being up to 13 hex digits,
\* and its negation; 0.0.
fromhex(digits, exponent) ==
    LET fraction == HexToBits(digits)
    IN  [neg |-> FALSE, lsb |-> exponent - Len(fraction), bits |-> <<1>> \o fraction]
negative(x) == [x EXCEPT !.neg = TRUE]
Zero == [neg |-> FALSE, lsb |-> 0, bits |-> <<>>]

StripLeading(bits) ==
    LET ones == {i \in 1..Len(bits) : bits[i] = 1}
    IN  IF ones = {} THEN <<>>
        ELSE SubSeq(bits, CHOOSE i \in ones : \A j \in ones : i <= j, Len(bits))
AlignTo(x, lsb) == x.bits \o Zeros(x.lsb - lsb)
PadLeft(bits, n) == Zeros(n - Len(bits)) \o bits
RECURSIVE AddFrom(_, _, _, _)
AddFrom(x, y, i, carry) ==
    IF i = 0 THEN <<carry>>
    ELSE IF x[i] + y[i] + carry >= 2
         THEN AddFrom(x, y, i - 1, 1) \o <<x[i] + y[i] + carry - 2>>
         ELSE AddFrom(x, y, i - 1, 0) \o <<x[i] + y[i] + carry>>
AddBits(x, y) == AddFrom(x, y, Len(x), 0)
LessBits(x, y) ==
    \E i \in 1..Len(x) : x[i] < y[i] /\ \A j \in 1..(i - 1) : x[j] = y[j]

\* x + y of two numbers >= 0, exactly.
ExactAdd(x, y) ==
    LET lsb == IF x.lsb < y.lsb THEN x.lsb ELSE y.lsb
        xb == AlignTo(x, lsb)
        yb == AlignTo(y, lsb)
        n == IF Len(xb) > Len(yb) THEN Len(xb) ELSE Len(yb)
    IN  [neg |-> FALSE, lsb |-> lsb,
         bits |-> StripLeading(AddBits(PadLeft(xb, n), PadLeft(yb, n)))]

\* |x| < |y|, and x < y.
LessMagnitude(x, y) ==
    LET lsb == IF x.lsb < y.lsb THEN x.lsb ELSE y.lsb
        xb == AlignTo(x, lsb)
        yb == AlignTo(y, lsb)
        n == IF Len(xb) > Len(yb) THEN Len(xb) ELSE Len(yb)
    IN  LessBits(PadLeft(xb, n), PadLeft(yb, n))
IsZero(x) == StripLeading(x.bits) = <<>>
Less(x, y) ==
    IF x.neg /\ ~y.neg THEN ~(IsZero(x) /\ IsZero(y))
    ELSE IF ~x.neg /\ y.neg THEN FALSE
    ELSE IF x.neg THEN LessMagnitude(y, x)
    ELSE LessMagnitude(x, y)

\* A number >= 0 rounded to binary64: to nearest, ties to even.
round_to_float(x) ==
    LET bits == StripLeading(x.bits)
        k == Len(bits) - 53
    IN  IF k <= 0 THEN [neg |-> FALSE, lsb |-> x.lsb, bits |-> bits]
        ELSE LET kept == SubSeq(bits, 1, 53)
                 rest == SubSeq(bits, 54, Len(bits))
                 more == \E i \in 2..Len(rest) : rest[i] = 1
                 up == rest[1] = 1 /\ (more \/ kept[53] = 1)
             IN  [neg |-> FALSE, lsb |-> x.lsb + k,
                  bits |-> IF up THEN AddBits(kept, Zeros(52) \o <<1>>) ELSE kept]

\* elapsed += poll_interval.
float_add(x, y) == round_to_float(ExactAdd(x, y))

\* VideoGenerationTimeoutError: the message; repr of the float is left as a
\* token.
VideoGenerationTimeoutError(provider, video_id, timeout_seconds) ==
    <<"Video generation timed out after ", "<timeout_seconds>", "s: ">>
    \o video_id \o <<" (provider: ", provider, ")">>

\* How wait_for_completion ends.
Waiting == [kind |-> "waiting", video |-> NoVideo, error |-> None]
WaitReturned(video) == [kind |-> "returned", video |-> video, error |-> None]
WaitRaised(kind, message) == [kind |-> kind, video |-> NoVideo, error |-> message]

IdleWait ==
    /\ poll_interval = Zero
    /\ timeout = Zero
    /\ elapsed = Zero
    /\ exact_elapsed = Zero
    /\ polls = 0
    /\ wait_result = Waiting

(***************************************************************************)
(* The caller and the pass, step by step (one step per stretch of code     *)
(* between awaits)                                                         *)
(***************************************************************************)
ResetPass ==
    /\ video_generations' = NoTree
    /\ disk_before' = {}
    /\ status_pending' = {}
    /\ status_results' = EmptyMap
    /\ status_calls' = EmptyMap
    /\ updated_videos' = EmptyMap
    /\ download_pending' = {}
    /\ download_results' = EmptyMap
    /\ download_calls' = EmptyMap
    /\ download_requests' = EmptyMap
    /\ finished' = <<>>
    /\ result' = NoTree

\* The server that generated the tree runs with OPENAI_API_KEY set.
Init ==
    /\ pc = "new"
    /\ state \in Storyboards
    /\ openai_api_key = ConfiguredKey
    /\ gen_segments = <<>>
    /\ batch_inputs = <<>>
    /\ batch_done = <<>>
    /\ batch_calls = <<>>
    /\ origin = NoTree
    /\ tree = NoTree
    /\ disk = NoFiles
    /\ passes = 0
    /\ video_generations = NoTree
    /\ disk_before = {}
    /\ status_pending = {}
    /\ status_results = EmptyMap
    /\ status_calls = EmptyMap
    /\ updated_videos = EmptyMap
    /\ download_pending = {}
    /\ download_results = EmptyMap
    /\ download_calls = EmptyMap
    /\ download_requests = EmptyMap
    /\ finished = <<>>
    /\ result = NoTree
    /\ fn_name = "none"
    /\ fn_input = <<>>
    /\ fn_result = "none"
    /\ IdleService
    /\ IdleWait

\* The clock: the storyboard is submitted in second 0, and the n-th
\* reconciliation pass runs in second n.
submitted_at == 0
now == passes + 1

\* POST /generate: generate_videos_from_project is called (lines 184-190).
CallGenerate ==
    /\ pc = "new"
    /\ pc' = "loop"
    /\ gen_segments' = <<>>
    /\ UNCHANGED <<state, openai_api_key, origin, tree, disk, passes, batch_inputs, batch_done,
                   batch_calls, passVars, fnVars, svcVars, waitVars>>

\* Lines 192-225, one iteration of the loop up to the await of generate_batch;
\* a segment without generation inputs is appended at once.
NextSegment ==
    /\ pc = "loop"
    /\ Len(gen_segments) < Len(state)
    /\ LET segment_index == Len(gen_segments)
           segment == state[segment_index + 1]
       IN  /\ batch_inputs' = inputs_with_indices(segment)
           /\ batch_done' = <<>>
           /\ IF inputs_with_indices(segment) # <<>>
              THEN /\ pc' = "batch"
                   /\ gen_segments' = gen_segments
                   /\ batch_calls' =
                          Append(batch_calls,
                                 [segment_index |-> segment_index,
                                  inputs |-> inputs_with_indices(segment)])
              ELSE /\ pc' = "loop"
                   /\ batch_calls' = batch_calls
                   /\ gen_segments' =
                          Append(gen_segments,
                                 SegmentGeneration(segment_index, segment.scene_description,
                                                   _derive_segment_status(<<>>), <<>>))
    /\ UNCHANGED <<state, openai_api_key, origin, tree, disk, passes, passVars, fnVars, svcVars, waitVars>>

\* One generate_one task of the gather finishes: the provider answered the
\* creation call, or the call raised.
GenerateOne ==
    /\ pc = "batch"
    /\ \E k \in 1..Len(batch_inputs) :
          /\ \A j \in 1..Len(batch_done) : batch_done[j][1] # k
          /\ LET provider == batch_inputs[k][1]
                 id == ProviderId(provider, Len(gen_segments), batch_inputs[k][2])
             IN  \E reply \in CreateReplies(provider) :
                    batch_done' =
                        Append(batch_done, <<k, generate(provider, id, reply, submitted_at)>>)
    /\ UNCHANGED <<pc, state, openai_api_key, origin, tree, disk, passes, gen_segments, batch_inputs,
                   batch_calls, passVars, fnVars, svcVars, waitVars>>

\* The gather returns: every task finished and none raised (lines 211-225).
BatchReturn ==
    /\ pc = "batch"
    /\ gather_returns(batch_done, Len(batch_inputs))
    /\ LET segment_index == Len(gen_segments)
           segment == state[segment_index + 1]
           results == generate_batch(batch_inputs, batch_done)
       IN  gen_segments' =
               Append(gen_segments,
                      SegmentGeneration(segment_index, segment.scene_description,
                                        _derive_segment_status(results), results))
    /\ pc' = "loop"
    /\ UNCHANGED <<state, openai_api_key, origin, tree, disk, passes, batch_inputs, batch_done,
                   batch_calls, passVars, fnVars, svcVars, waitVars>>

\* The gather raises as soon as one task raised: generate_batch and
\* generate_videos_from_project raise with it, and no tree is returned.
BatchRaise ==
    /\ pc = "batch"
    /\ gather_raises(batch_done)
    /\ pc' = "generate_raised"
    /\ UNCHANGED <<state, openai_api_key, origin, tree, disk, passes, genVars, passVars, fnVars, svcVars, waitVars>>

\* Lines 254-262: the loop is over (wait_for_completion is False, as
\* app/main.py calls it); the initial tree is returned.
ReturnGenerate ==
    /\ pc = "loop"
    /\ Len(gen_segments) = Len(state)
    /\ tree' = VideoGenerations(<<"p1">>, isoformat(submitted_at),
                                _derive_overall_status(gen_segments), gen_segments)
    /\ origin' = tree'
    /\ pc' = "idle"
    /\ gen_segments' = <<>>
    /\ batch_inputs' = <<>>
    /\ batch_done' = <<>>
    /\ UNCHANGED <<state, openai_api_key, disk, passes, batch_calls, passVars, fnVars, svcVars, waitVars>>

\* passes counts the passes up to MaxPasses and stays there.
CountPass == passes' = IF passes < MaxPasses THEN passes + 1 ELSE passes

\* POST /generate/status: lines 365-395, up to the gather of the status checks.
BeginPass ==
    /\ pc = "idle"
    /\ video_generations' = tree
    /\ status_pending' = videos_to_check(tree)
    /\ status_calls' = [key \in LeafKeys(tree) |-> 0]
    /\ download_calls' = [key \in LeafKeys(tree) |-> 0]
    /\ pc' = "status"
    /\ UNCHANGED <<state, openai_api_key, origin, tree, disk, passes, disk_before, status_results,
                   updated_videos, download_pending, download_results,
                   download_requests, finished, result, genVars, fnVars, svcVars,
                   waitVars>>
StartPass == passes < MaxPasses /\ BeginPass

\* One check_status task runs: the provider answers, in any order.
PollStatus(key, reply) ==
    /\ status_results' =
           (key :> check_status(ResultAt(video_generations, key), reply, now))
           @@ status_results
    /\ status_calls' = [status_calls EXCEPT ![key] = @ + 1]
    /\ status_pending' = status_pending \ {key}
    /\ finished' = Append(finished, <<"status", key>>)
CheckStatus ==
    /\ pc = "status"
    /\ \E key \in status_pending :
          LET res == ResultAt(video_generations, key)
          IN  \E reply \in Replies(res.provider, res.video.id) : PollStatus(key, reply)
    /\ UNCHANGED <<pc, state, openai_api_key, origin, tree, disk, passes, video_generations, disk_before,
                   updated_videos, download_pending, download_results, download_calls,
                   download_requests, result, genVars, fnVars, svcVars, waitVars>>

\* Lines 395-445: the gather returned; refreshed videos, files to download.
StartDownloads ==
    /\ pc = "status"
    /\ status_pending = {}
    /\ updated_videos' = build_updated_videos(video_generations, status_results)
    /\ download_pending' = videos_to_download(video_generations, updated_videos', disk)
    /\ disk_before' = DOMAIN disk
    /\ pc' = "download"
    /\ UNCHANGED <<state, openai_api_key, origin, tree, disk, passes, video_generations, status_pending,
                   status_results, status_calls, download_results, download_calls,
                   download_requests, finished, result, genVars, fnVars, svcVars,
                   waitVars>>

\* One download_one task runs.
DownloadOne ==
    /\ pc = "download"
    /\ \E key \in download_pending, outcome \in DownloadOutcomes :
          LET path == local_path_of(video_generations, updated_videos, key)
              res == ResultAt(video_generations, key)
              video == Get(updated_videos, key, res.video)
              api_key == download_one_api_key(res.provider, openai_api_key)
          IN  /\ disk' = _download_video_writes(disk, path, outcome)
              /\ download_requests' =
                     (key :> [url |-> video.video_url,
                              headers |-> _download_video_headers(res.provider, api_key)])
                     @@ download_requests
              /\ download_results' =
                     (key :> _download_video_returns(outcome)) @@ download_results
              /\ download_calls' = [download_calls EXCEPT ![key] = @ + 1]
              /\ download_pending' = download_pending \ {key}
              /\ finished' = Append(finished, <<"download", key>>)
    /\ UNCHANGED <<pc, state, openai_api_key, origin, tree, passes, video_generations, disk_before,
                   status_pending, status_results, status_calls, updated_videos,
                   result, genVars, fnVars, svcVars, waitVars>>

\* Lines 445-496: the gather returned; the pass returns the new tree, or the
\* exception of a download task leaves it.
FinishPass ==
    /\ pc = "download"
    /\ download_pending = {}
    /\ IF \E key \in DOMAIN download_results : download_results[key] = Uncaught
       THEN /\ pc' = "raised"
            /\ result' = NoTree
            /\ video_generations' = video_generations
       ELSE /\ pc' = "returned"
            /\ result' = build_result(video_generations, updated_videos,
                                      build_download_errors(download_results))
            /\ video_generations' = input_after_pass(video_generations, result')
    /\ UNCHANGED <<state, openai_api_key, origin, tree, disk, passes, disk_before, status_pending,
                   status_results, status_calls, updated_videos, download_pending,
                   download_results, download_calls, download_requests, finished,
                   genVars, fnVars, svcVars, waitVars>>

\* The caller takes the returned tree as its current one.
Adopt ==
    /\ pc = "returned"
    /\ tree' = result
    /\ pc' = "idle"
    /\ CountPass
    /\ ResetPass
    /\ UNCHANGED <<state, openai_api_key, origin, disk, genVars, fnVars, svcVars, waitVars>>

\* The caller keeps its old snapshot (the response was lost, or the pass
\* raised) and may poll with it again.
KeepSnapshot ==
    /\ pc \in {"returned", "raised"}
    /\ pc' = "idle"
    /\ CountPass
    /\ ResetPass
    /\ UNCHANGED <<state, openai_api_key, origin, tree, disk, genVars, fnVars, svcVars, waitVars>>

\* The process dies during a pass, between two steps of it: the pass returns
\* nothing and the caller still holds the tree it sent.
Crash ==
    /\ pc \in {"status", "download"}
    /\ pc' = "idle"
    /\ CountPass
    /\ ResetPass
    /\ UNCHANGED <<state, openai_api_key, origin, tree, disk, genVars, fnVars, svcVars, waitVars>>

\* The process dies while a download task is inside f.write (_download_video,
\* lines 334-335): open(output_path, "wb") has created the file at its final
\* path and only a part of the content, or none, is in it.
CrashWhileWriting ==
    /\ pc = "download"
    /\ \E key \in download_pending :
          disk' = (local_path_of(video_generations, updated_videos, key) :> "partial")
                      @@ disk
    /\ pc' = "idle"
    /\ CountPass
    /\ ResetPass
    /\ UNCHANGED <<state, openai_api_key, origin, tree, genVars, fnVars, svcVars, waitVars>>

Next ==
    \/ CallGenerate
    \/ NextSegment
    \/ GenerateOne
    \/ BatchReturn
    \/ BatchRaise
    \/ ReturnGenerate
    \/ StartPass
    \/ CheckStatus
    \/ StartDownloads
    \/ DownloadOne
    \/ FinishPass
    \/ Adopt
    \/ KeepSnapshot
    \/ Crash
    \/ CrashWhileWriting

Spec == Init /\ [][Next]_vars

(***************************************************************************)
(* The same system when the caller may also post a tree of its own making  *)
(* to POST /generate/status (app/main.py line 138 takes any valid          *)
(* VideoGenerations): the segment_index fields and the stored segment and  *)
(* root statuses are then whatever the caller wrote.                       *)
(***************************************************************************)
ClientVideos(provider, id) ==
    {GeneratedVideo(id, "in_progress", isoformat(submitted_at), None, None),
     GeneratedVideo(id, "completed", isoformat(submitted_at),
                    IF provider = "sora"
                    THEN BASE_URL \o <<"/videos/">> \o id \o <<"/content">>
                    ELSE VeoUri(id),
                    None)}
\* The videos of the first segment as the user's client may hold them: also
\* selected for the final assembly, and, for Veo, with a url on the OpenAI
\* host.
Selected(video) == [video EXCEPT !.selected = TRUE]
UserVideos(provider, id) ==
    ClientVideos(provider, id)
    \cup {Selected(video) : video \in ClientVideos(provider, id)}
    \cup (IF provider = "veo"
          THEN {GeneratedVideo(id, "completed", isoformat(submitted_at),
                               BASE_URL \o <<"/videos/">> \o id \o <<"/content">>, None)}
          ELSE {})
ClientResults(p) ==
    {<<>>} \cup UNION {{<<GenerationResult(0, provider, video)>> :
                            video \in IF p = 1
                                      THEN UserVideos(provider,
                                                      ProviderId(provider, p - 1, 0))
                                      ELSE ClientVideos(provider,
                                                        ProviderId(provider, p - 1, 0))}
                          : provider \in Providers}
ClientSegments(p, stored) ==
    {SegmentGeneration(segment_index, <<"scene ", Digits[p]>>, stored, results) :
        segment_index \in 0..1, results \in ClientResults(p)}
ClientTrees ==
    UNION {{VideoGenerations(<<"p1">>, isoformat(submitted_at), stored, <<s1>>) :
                s1 \in ClientSegments(1, stored)}
           \cup {VideoGenerations(<<"p1">>, isoformat(submitted_at), stored, <<s1, s2>>) :
                    s1 \in ClientSegments(1, stored), s2 \in ClientSegments(2, stored)}
              : stored \in SegmentStatuses}

InitClient ==
    /\ \/ /\ pc = "new"
          /\ state \in Storyboards
          /\ openai_api_key = ConfiguredKey
          /\ tree = NoTree
       \/ /\ pc = "idle"
          /\ state = <<>>
          /\ openai_api_key \in {None, ConfiguredKey}
          /\ tree \in ClientTrees
    /\ gen_segments = <<>>
    /\ batch_inputs = <<>>
    /\ batch_done = <<>>
    /\ batch_calls = <<>>
    /\ origin = NoTree
    /\ disk = NoFiles
    /\ passes = 0
    /\ video_generations = NoTree
    /\ disk_before = {}
    /\ status_pending = {}
    /\ status_results = EmptyMap
    /\ status_calls = EmptyMap
    /\ updated_videos = EmptyMap
    /\ download_pending = {}
    /\ download_results = EmptyMap
    /\ download_calls = EmptyMap
    /\ download_requests = EmptyMap
    /\ finished = <<>>
    /\ result = NoTree
    /\ fn_name = "none"
    /\ fn_input = <<>>
    /\ fn_result = "none"
    /\ IdleService
    /\ IdleWait

SpecClient == InitClient /\ [][Next]_vars

(***************************************************************************)
(* The caller polls for ever and every status check is answered with a     *)
(* completed or failed record: the process is not killed, and the caller   *)
(* adopts the tree of a pass that returned, if not every time.             *)
(***************************************************************************)
\* The replies to a status poll that give a completed or failed record.
DecidingReplies(provider, video_id) ==
    {reply \in Replies(provider, video_id) :
        LET got == get_status(EmptyMap, provider, video_id, reply, submitted_at)
        IN  ~got.raised /\ got.video.status \in {"completed", "failed"}}

CheckStatusDecided ==
    /\ pc = "status"
    /\ \E key \in status_pending :
          LET res == ResultAt(video_generations, key)
          IN  \E reply \in DecidingReplies(res.provider, res.video.id) :
                 PollStatus(key, reply)
    /\ UNCHANGED <<pc, state, openai_api_key, origin, tree, disk, passes,
                   video_generations, disk_before, updated_videos, download_pending,
                   download_results, download_calls, download_requests, result,
                   genVars, fnVars, svcVars, waitVars>>

\* One more pass, after those that are counted.
PollAgain == passes = MaxPasses /\ BeginPass

NextConverge ==
    \/ CallGenerate
    \/ NextSegment
    \/ GenerateOne
    \/ BatchReturn
    \/ BatchRaise
    \/ ReturnGenerate
    \/ StartPass
    \/ PollAgain
    \/ CheckStatusDecided
    \/ StartDownloads
    \/ DownloadOne
    \/ FinishPass
    \/ Adopt
    \/ KeepSnapshot

SpecConverge ==
    /\ Init
    /\ [][NextConverge]_vars
    /\ WF_vars(NextConverge)
    /\ SF_vars(Adopt)

(***************************************************************************)
(* The derivation functions applied to every short list of statuses        *)
(***************************************************************************)
\* A result list whose leaves have the given statuses, and a segment list
\* whose segments have the given statuses.
ResultsWith(statuses) ==
    [i \in 1..Len(statuses) |->
        GenerationResult(i - 1, "veo",
                         GeneratedVideo(<<"v">>, statuses[i], None, None, None))]
SegmentsWith(statuses) ==
    [i \in 1..Len(statuses) |-> SegmentGeneration(i - 1, None, statuses[i], <<>>)]

\* GenerationConfig.duration values, and Segment.duration values in half
\* seconds.
Durations == -MaxDuration..MaxDuration
HalfDurations == (-2 * MaxDuration)..(2 * MaxDuration)

InitDerive ==
    /\ pc = "derive"
    /\ \/ fn_name = "_derive_segment_status"
          /\ fn_input \in SeqsUpTo(LeafStatuses, MaxStatusLen)
       \/ fn_name = "_derive_overall_status"
          /\ fn_input \in SeqsUpTo(SegmentStatuses, MaxStatusLen)
       \/ fn_name = "_validate_duration"
          /\ fn_input \in [provider : Providers, duration : Durations]
       \/ fn_name = "generate_videos_from_project"
          /\ fn_input \in [provider : Providers, duration_x2 : HalfDurations]
       \/ fn_name = "get_status"
          /\ fn_input \in [video_id : {ProviderId("sora", 0, 0)},
                            reply : SoraStatusResponses]
       \/ fn_name = "VeoProvider.get_status"
          /\ fn_input \in [video_id : {ProviderId("veo", 0, 0)},
                            reply : VeoOperations(ProviderId("veo", 0, 0))]
    /\ fn_result = "none"
    /\ state = <<>>
    /\ openai_api_key = None
    /\ gen_segments = <<>>
    /\ batch_inputs = <<>>
    /\ batch_done = <<>>
    /\ batch_calls = <<>>
    /\ origin = NoTree
    /\ tree = NoTree
    /\ disk = NoFiles
    /\ passes = 0
    /\ video_generations = NoTree
    /\ disk_before = {}
    /\ status_pending = {}
    /\ status_results = EmptyMap
    /\ status_calls = EmptyMap
    /\ updated_videos = EmptyMap
    /\ download_pending = {}
    /\ download_results = EmptyMap
    /\ download_calls = EmptyMap
    /\ download_requests = EmptyMap
    /\ finished = <<>>
    /\ result = NoTree
    /\ IdleService
    /\ IdleWait

DeriveSegment ==
    /\ pc = "derive"
    /\ fn_name = "_derive_segment_status"
    /\ fn_result' = _derive_segment_status(ResultsWith(fn_input))
    /\ pc' = "derived"
    /\ UNCHANGED <<state, openai_api_key, origin, tree, disk, passes, genVars, passVars,
                   fn_name, fn_input, svcVars, waitVars>>

DeriveOverall ==
    /\ pc = "derive"
    /\ fn_name = "_derive_overall_status"
    /\ fn_result' = _derive_overall_status(SegmentsWith(fn_input))
    /\ pc' = "derived"
    /\ UNCHANGED <<state, openai_api_key, origin, tree, disk, passes, genVars, passVars,
                   fn_name, fn_input, svcVars, waitVars>>

\* An adapter's generate validates the duration of the config it is given.
ValidateDuration ==
    /\ pc = "derive"
    /\ fn_name = "_validate_duration"
    /\ fn_result' = _validate_duration(SUPPORTED_DURATIONS(fn_input.provider),
                                       fn_input.duration)
    /\ pc' = "derived"
    /\ UNCHANGED <<state, openai_api_key, origin, tree, disk, passes, genVars, passVars,
                   fn_name, fn_input, svcVars, waitVars>>

\* generate_videos_from_project has an adapter submit a segment's duration.
SubmitDuration ==
    /\ pc = "derive"
    /\ fn_name = "generate_videos_from_project"
    /\ fn_result' = submitted_duration(fn_input.provider, fn_input.duration_x2)
    /\ pc' = "derived"
    /\ UNCHANGED <<state, openai_api_key, origin, tree, disk, passes, genVars, passVars,
                   fn_name, fn_input, svcVars, waitVars>>

\* SoraProvider.get_status receives the API's response.
GetStatus ==
    /\ pc = "derive"
    /\ fn_name = "get_status"
    /\ fn_result' = Sora_get_status(fn_input.video_id, fn_input.reply, now)
    /\ pc' = "derived"
    /\ UNCHANGED <<state, openai_api_key, origin, tree, disk, passes, genVars, passVars,
                   fn_name, fn_input, svcVars, waitVars>>

\* VeoProvider.get_status receives the operation.
VeoGetStatus ==
    /\ pc = "derive"
    /\ fn_name = "VeoProvider.get_status"
    /\ fn_result' = Veo_get_status(EmptyMap, fn_input.video_id, fn_input.reply, now)
    /\ pc' = "derived"
    /\ UNCHANGED <<state, openai_api_key, origin, tree, disk, passes, genVars, passVars,
                   fn_name, fn_input, svcVars, waitVars>>

NextDerive ==
    \/ DeriveSegment
    \/ DeriveOverall
    \/ ValidateDuration
    \/ SubmitDuration
    \/ GetStatus
    \/ VeoGetStatus

SpecDerive == InitDerive /\ [][NextDerive]_vars

(***************************************************************************)
(* One VideoGenerationService and the calls made on it, in any order and   *)
(* interleaving: a call resolves its adapter before its first await, and   *)
(* finishes later.                                                         *)
(***************************************************************************)
IdleRun ==
    /\ state = <<>>
    /\ openai_api_key = None
    /\ gen_segments = <<>>
    /\ batch_inputs = <<>>
    /\ batch_done = <<>>
    /\ batch_calls = <<>>
    /\ origin = NoTree
    /\ tree = NoTree
    /\ disk = NoFiles
    /\ passes = 0
    /\ video_generations = NoTree
    /\ disk_before = {}
    /\ status_pending = {}
    /\ status_results = EmptyMap
    /\ status_calls = EmptyMap
    /\ updated_videos = EmptyMap
    /\ download_pending = {}
    /\ download_results = EmptyMap
    /\ download_calls = EmptyMap
    /\ download_requests = EmptyMap
    /\ finished = <<>>
    /\ result = NoTree

InitService ==
    /\ pc = "service"
    /\ IdleRun
    /\ fn_name = "none"
    /\ fn_input = <<>>
    /\ fn_result = "none"
    /\ IdleService
    /\ IdleWait

\* The adapter the constructor would build next.
NewInstance == <<"adapter_", Digits[Cardinality(svc_constructed) + 1]>>

\* Lines 84, 139, 161, 214: the method resolves the adapter; the call then
\* awaits it, or the exception of _get_provider leaves the method.
Delegate(call, method, provider_name, key_set) ==
    LET got == _get_provider(svc_providers, provider_name, NewInstance, key_set)
    IN  /\ svc_providers' = got._providers
        /\ svc_constructed' =
               IF got.constructed
               THEN svc_constructed \cup {<<provider_name, got.instance>>}
               ELSE svc_constructed
        /\ svc_inflight' =
               IF got.raised = None
               THEN svc_inflight \cup {[call |-> call, method |-> method,
                                        provider |-> provider_name,
                                        instance |-> got.instance]}
               ELSE svc_inflight
        /\ svc_calls' = svc_calls \cup {[provider |-> provider_name,
                                         key_set |-> key_set, raised |-> got.raised]}

\* generate, get_status, get_video_url or wait_for_completion is called.
ServiceCall ==
    /\ pc = "service"
    /\ svc_issued < MaxCalls
    /\ \E method \in DelegatingMethods, provider_name \in ProviderNames,
          key_set \in BOOLEAN :
          Delegate(<<svc_issued + 1, 0>>, method, provider_name, key_set)
    /\ svc_issued' = svc_issued + 1
    /\ UNCHANGED <<pc, state, openai_api_key, origin, tree, disk, passes, genVars, passVars, fnVars,
                   svc_tasks, svc_log, waitVars>>

\* generate_batch is called: lines 121-122 create one generate_one task per
\* input; none has run yet.
ServiceCallBatch ==
    /\ pc = "service"
    /\ svc_issued < MaxCalls
    /\ \E inputs \in SeqsUpTo(ProviderNames, 2) \ {<<>>} :
          svc_tasks' = svc_tasks \cup {[call |-> <<svc_issued + 1, k>>,
                                        provider |-> inputs[k]] : k \in 1..Len(inputs)}
    /\ svc_issued' = svc_issued + 1
    /\ UNCHANGED <<pc, state, openai_api_key, origin, tree, disk, passes, genVars, passVars, fnVars,
                   svc_providers, svc_constructed, svc_inflight, svc_log, svc_calls,
                   waitVars>>

\* A generate_one task starts: it calls self.generate (line 114).
StartTask ==
    /\ pc = "service"
    /\ \E task \in svc_tasks, key_set \in BOOLEAN :
          /\ Delegate(task.call, "generate", task.provider, key_set)
          /\ svc_tasks' = svc_tasks \ {task}
    /\ UNCHANGED <<pc, state, openai_api_key, origin, tree, disk, passes, genVars, passVars, fnVars,
                   svc_log, svc_issued, waitVars>>

\* The adapter a call was delegated to answers.
ServiceReturn ==
    /\ pc = "service"
    /\ \E call \in svc_inflight :
          /\ svc_inflight' = svc_inflight \ {call}
          /\ svc_log' = svc_log \cup {<<call.provider, call.instance>>}
    /\ UNCHANGED <<pc, state, openai_api_key, origin, tree, disk, passes, genVars, passVars, fnVars,
                   svc_providers, svc_constructed, svc_tasks, svc_issued, svc_calls,
                   waitVars>>

NextService ==
    \/ ServiceCall
    \/ ServiceCallBatch
    \/ StartTask
    \/ ServiceReturn

SpecService == InitService /\ [][NextService]_vars

(***************************************************************************)
(* One wait_for_completion call (providers/base.py lines 86-101)           *)
(***************************************************************************)
\* poll_interval and timeout as Python floats: 0.1, 0.5, 1.0, 2.0, 5.0 and
\* -1.0, 0.0, 0.3, 1.0, 2.5, 5.0, 12.0.
PollIntervals ==
    {fromhex(<<"9", "9", "9", "9", "9", "9", "9", "9", "9", "9", "9", "9", "a">>, -4),
     fromhex(<<>>, -1), fromhex(<<>>, 0), fromhex(<<>>, 1), fromhex(<<"4">>, 2)}
Timeouts ==
    {negative(fromhex(<<>>, 0)), Zero,
     fromhex(<<"3", "3", "3", "3", "3", "3", "3", "3", "3", "3", "3", "3", "3">>, -2),
     fromhex(<<>>, 0), fromhex(<<"4">>, 1), fromhex(<<"4">>, 2), fromhex(<<"8">>, 3)}

InitWait ==
    /\ pc = "wait"
    /\ IdleRun
    /\ fn_name = "wait_for_completion"
    /\ fn_input \in {[provider |-> provider, video_id |-> ProviderId(provider, 0, 0)] :
                         provider \in Providers}
    /\ fn_result = "none"
    /\ IdleService
    /\ poll_interval \in PollIntervals
    /\ timeout \in Timeouts
    /\ elapsed = Zero
    /\ exact_elapsed = Zero
    /\ polls = 0
    /\ wait_result = Waiting

\* Lines 88-95, one iteration: elapsed < timeout, so get_status is awaited;
\* a completed or failed record is returned, an exception of get_status
\* leaves the method, otherwise it sleeps and adds to elapsed.
WaitPoll ==
    /\ pc = "wait"
    /\ Less(elapsed, timeout)
    /\ polls' = polls + 1
    /\ \E reply \in Replies(fn_input.provider, fn_input.video_id) :
          LET got == get_status(EmptyMap, fn_input.provider, fn_input.video_id, reply, now)
          IN  IF got.raised
              THEN /\ wait_result' = WaitRaised("raised", got.error)
                   /\ pc' = "waited"
                   /\ UNCHANGED <<elapsed, exact_elapsed>>
              ELSE IF got.video.status \in {"completed", "failed"}
              THEN /\ wait_result' = WaitReturned(got.video)
                   /\ pc' = "waited"
                   /\ UNCHANGED <<elapsed, exact_elapsed>>
              ELSE /\ elapsed' = float_add(elapsed, poll_interval)
                   /\ exact_elapsed' = ExactAdd(exact_elapsed, poll_interval)
                   /\ UNCHANGED <<pc, wait_result>>
    /\ UNCHANGED <<state, openai_api_key, origin, tree, disk, passes, genVars, passVars, fnVars,
                   svcVars, poll_interval, timeout>>

\* Lines 97-101: the loop condition is false; the timeout error is raised.
WaitTimeout ==
    /\ pc = "wait"
    /\ ~Less(elapsed, timeout)
    /\ wait_result' =
           WaitRaised("timeout",
                      VideoGenerationTimeoutError(fn_input.provider, fn_input.video_id,
                                                  timeout))
    /\ pc' = "waited"
    /\ UNCHANGED <<state, openai_api_key, origin, tree, disk, passes, genVars, passVars, fnVars,
                   svcVars, poll_interval, timeout, elapsed, exact_elapsed, polls>>

NextWait ==
    \/ WaitPoll
    \/ WaitTimeout

SpecWait == InitWait /\ [][NextWait]_vars

(***************************************************************************)
(* The same call, one step per await, for any poll_interval >= 0: the loop *)
(* awaits get_status (line 89) and then asyncio.sleep (line 94).  The      *)
(* coroutine is resumed whenever the awaited call is over, so each step    *)
(* that can be taken is taken eventually.                                  *)
(***************************************************************************)
\* polls counts the get_status calls up to MaxPolls and stays there.
MaxPolls == 3

InitWaitFair ==
    /\ pc = "wait"
    /\ IdleRun
    /\ fn_name = "wait_for_completion"
    /\ fn_input \in {[provider |-> provider, video_id |-> ProviderId(provider, 0, 0)] :
                         provider \in Providers}
    /\ fn_result = "none"
    /\ IdleService
    /\ poll_interval \in PollIntervals \cup {Zero}
    /\ timeout \in Timeouts
    /\ elapsed = Zero
    /\ exact_elapsed = Zero
    /\ polls = 0
    /\ wait_result = Waiting

\* Lines 88-92: elapsed < timeout, get_status is awaited; a completed or
\* failed record is returned and an exception of get_status leaves the method.
WaitGetStatus ==
    /\ pc = "wait"
    /\ Less(elapsed, timeout)
    /\ polls' = IF polls < MaxPolls THEN polls + 1 ELSE polls
    /\ \E reply \in Replies(fn_input.provider, fn_input.video_id) :
          LET got == get_status(EmptyMap, fn_input.provider, fn_input.video_id, reply, now)
          IN  IF got.raised
              THEN /\ wait_result' = WaitRaised("raised", got.error)
                   /\ pc' = "waited"
              ELSE IF got.video.status \in {"completed", "failed"}
              THEN /\ wait_result' = WaitReturned(got.video)
                   /\ pc' = "waited"
              ELSE /\ pc' = "sleep"
                   /\ UNCHANGED wait_result
    /\ UNCHANGED <<state, openai_api_key, origin, tree, disk, passes, genVars, passVars,
                   fnVars, svcVars, poll_interval, timeout, elapsed, exact_elapsed>>

\* Lines 94-95: the sleep is over; elapsed += poll_interval.
SleepOver == pc = "sleep" /\ pc' = "wait"
WaitSleep ==
    /\ SleepOver
    /\ elapsed' = float_add(elapsed, poll_interval)
    /\ exact_elapsed' = ExactAdd(exact_elapsed, poll_interval)
    /\ UNCHANGED <<state, openai_api_key, origin, tree, disk, passes, genVars, passVars,
                   fnVars, svcVars, poll_interval, timeout, polls, wait_result>>

NextWaitFair ==
    \/ WaitGetStatus
    \/ WaitSleep
    \/ WaitTimeout

\* WaitSleep is the only step from "sleep" to "wait".
SpecWaitFair ==
    /\ InitWaitFair
    /\ [][NextWaitFair]_vars
    /\ WF_vars(WaitGetStatus)
    /\ WF_pc(SleepOver)
    /\ WF_vars(WaitTimeout)

(***************************************************************************)
(* Properties                                                              *)
(***************************************************************************)
\* The derivation rule of the specification, for a list of statuses and the
\* status derived from it.  "completed iff every element is completed" is
\* read over non-empty lists, the empty list being the pending case.
AllAre(statuses, s) == \A i \in 1..Len(statuses) : statuses[i] = s
AnyIs(statuses, S) == \E i \in 1..Len(statuses) : statuses[i] \in S
DerivationRule(statuses, derived, running) ==
    /\ derived = "completed" <=> (statuses # <<>> /\ AllAre(statuses, "completed"))
    /\ AnyIs(statuses, {"failed"}) => derived = "failed"
    /\ (/\ ~AnyIs(statuses, {"failed"})
        /\ ~AllAre(statuses, "completed")
        /\ AnyIs(statuses, running)) => derived = "in_progress"
    /\ derived = "pending" <=> statuses = <<>>

\* C1: for every list of leaf statuses, _derive_segment_status returns
\* completed iff all leaves are completed, failed if any leaf is failed,
\* in_progress if none failed, not all completed and some leaf is queued or
\* in_progress, and pending iff the list is empty.
C1_SegmentDerivation ==
    (pc = "derived" /\ fn_name = "_derive_segment_status")
        => DerivationRule(fn_input, fn_result, {"queued", "in_progress"})

\* C1 witness: a failed leaf mixed with a completed and a running one.
C1_Witness ==
    /\ pc = "derived"
    /\ fn_name = "_derive_segment_status"
    /\ fn_input = <<"completed", "failed", "in_progress">>
    /\ fn_result = "failed"

\* C2: for every list of segment statuses, _derive_overall_status follows the
\* same rule one level up; in particular it returns pending only for the
\* empty segment list.
C2_OverallDerivation ==
    (pc = "derived" /\ fn_name = "_derive_overall_status")
        => DerivationRule(fn_input, fn_result, {"in_progress"})

(***************************************************************************)
(* Properties of a reconciliation pass.  Within a pass video_generations   *)
(* is the input tree, updated_videos the refreshed videos, result the      *)
(* returned tree.                                                          *)
(***************************************************************************)
InPass == pc \in {"status", "download", "returned", "raised"}
StatusDone == pc \in {"download", "returned", "raised"}
PassOver == pc \in {"returned", "raised"}
IsTerminal(status) == status \in {"completed", "failed"}
InputVideo(key) == ResultAt(video_generations, key).video
OutputVideo(key) == ResultAt(result, key).video
\* The leaf's video once the status refresh is done.
RefreshedVideo(key) == Get(updated_videos, key, InputVideo(key))
\* The artifact file of a leaf of the input tree.
ArtifactPath(key) ==
    get_video_local_path(project_root, video_generations.project_id,
                         video_generations.segments[key[1] + 1].segment_index,
                         ResultAt(video_generations, key).input_index,
                         RefreshedVideo(key).id)

\* C3: a leaf that is completed or failed in the input tree of a pass has
\* the same status in the tree the pass returns, and a leaf that is completed
\* or failed in the tree the caller holds has the same status in every tree
\* the caller holds later, whatever the providers answer and the downloads do.
C3_Step ==
    /\ pc' = "returned" =>
          \A key \in LeafKeys(video_generations') :
              IsTerminal(ResultAt(video_generations', key).video.status) =>
                  ResultAt(result', key).video.status
                      = ResultAt(video_generations', key).video.status
    /\ tree # NoTree =>
          \A key \in LeafKeys(tree) :
              IsTerminal(ResultAt(tree, key).video.status) =>
                  ResultAt(tree', key).video.status = ResultAt(tree, key).video.status
C3_TerminalAbsorbing == [][C3_Step]_vars

\* C3 witness: a second pass returns a tree in which one leaf was terminal in
\* the input while another leaf's status was refreshed.
C3_Witness ==
    /\ pc = "returned"
    /\ passes >= 1
    /\ \E k1, k2 \in LeafKeys(video_generations) :
          /\ InputVideo(k1).status = "completed"
          /\ OutputVideo(k1).status = "completed"
          /\ ~IsTerminal(InputVideo(k2).status)
          /\ OutputVideo(k2).status = "failed"

\* C4: in one pass service.get_status is invoked exactly once for every leaf
\* that is queued or in_progress in the input tree and never for a leaf that
\* is completed or failed; no leaf is polled twice.
C4_SinglePoll ==
    InPass =>
        \A key \in LeafKeys(video_generations) :
            /\ IsTerminal(InputVideo(key).status) => status_calls[key] = 0
            /\ ~IsTerminal(InputVideo(key).status) =>
                  /\ status_calls[key] <= 1
                  /\ StatusDone => status_calls[key] = 1

\* C4 witness: a finished pass over a tree with a terminal and a running leaf.
C4_Witness ==
    /\ pc = "returned"
    /\ \E k1, k2 \in LeafKeys(video_generations) :
          /\ IsTerminal(InputVideo(k1).status) /\ status_calls[k1] = 0
          /\ ~IsTerminal(InputVideo(k2).status) /\ status_calls[k2] = 1

\* C5: when get_status raised for a leaf, whatever the exception's message,
\* the pass returns a tree in which that leaf is its prior value except that
\* error is "Status check failed" followed by the detail, and every other
\* polled leaf is the video its own get_status returned.
C5_StatusErrorContained ==
    pc = "returned" =>
        \A key \in DOMAIN status_results :
            IF status_results[key].raised
            THEN /\ OutputVideo(key).status = InputVideo(key).status
                 /\ Contains(OutputVideo(key).error, "Status check failed: ")
                 /\ OutputVideo(key)
                        = [InputVideo(key) EXCEPT !.error = OutputVideo(key).error]
            ELSE [OutputVideo(key) EXCEPT !.error = None]
                     = [status_results[key].video EXCEPT !.error = None]

\* C6: when the download of a leaf's artifact fails, the pass still returns;
\* in the returned tree the leaf is completed, its video_url is the one the
\* provider reported, its error holds "Download failed" and the detail, and
\* no other leaf's record is touched by it.
DownloadFailed(key) ==
    key \in DOMAIN download_results /\ download_results[key] # None
C6_DownloadErrorContained ==
    (PassOver /\ \E key \in LeafKeys(video_generations) : DownloadFailed(key)) =>
        /\ pc = "returned"
        /\ \A key \in LeafKeys(video_generations) :
              IF DownloadFailed(key)
              THEN /\ OutputVideo(key).status = "completed"
                   /\ OutputVideo(key).video_url = RefreshedVideo(key).video_url
                   /\ Contains(OutputVideo(key).error, "Download failed: ")
              ELSE OutputVideo(key) = RefreshedVideo(key)

\* C7: a leaf whose artifact file exists when the download phase begins is
\* not downloaded in that pass, and the returned tree holds the video_url and
\* error the leaf had when the download phase began.
C7_ExistingFileSkipped ==
    StatusDone =>
        \A key \in LeafKeys(video_generations) :
            ArtifactPath(key) \in disk_before =>
                /\ download_calls[key] = 0
                /\ pc = "returned" =>
                      /\ OutputVideo(key).video_url = RefreshedVideo(key).video_url
                      /\ OutputVideo(key).error = RefreshedVideo(key).error

\* C7 witness: a pass over the caller's old snapshot finds the leaf completed
\* at the provider and its file already on disk, while another leaf is
\* downloaded.
C7_Witness ==
    /\ pc = "returned"
    /\ \E k1, k2 \in LeafKeys(video_generations) :
          /\ ArtifactPath(k1) \in disk_before
          /\ OutputVideo(k1).status = "completed"
          /\ download_calls[k1] = 0
          /\ download_calls[k2] = 1

\* C8: in one pass _download_video is invoked exactly once for each leaf
\* that after the status refresh is completed, has a non-empty video_url and
\* has no artifact file on disk, and is invoked for no other leaf.
Downloadable(key) ==
    /\ RefreshedVideo(key).status = "completed"
    /\ RefreshedVideo(key).video_url \notin {None, <<>>}
    /\ ArtifactPath(key) \notin disk_before
C8_DownloadEligibility ==
    StatusDone =>
        \A key \in LeafKeys(video_generations) :
            /\ ~Downloadable(key) => download_calls[key] = 0
            /\ Downloadable(key) =>
                  /\ download_calls[key] <= 1
                  /\ (download_pending = {}) => download_calls[key] = 1

\* C8 witness: a finished pass that downloaded one leaf and not another that
\* is completed without a video_url.
C8_Witness ==
    /\ PassOver
    /\ \E k1, k2 \in LeafKeys(video_generations) :
          /\ Downloadable(k1) /\ download_calls[k1] = 1
          /\ RefreshedVideo(k2).status = "completed"
          /\ RefreshedVideo(k2).video_url = None
          /\ download_calls[k2] = 0

\* C9: the tree the caller holds and the tree a pass returns have the
\* project_id of the tree generate_videos_from_project returned, the same
\* segments in the same order with the same segment_index and
\* scene_description, and in each segment the same leaves in the same order
\* with the same input_index and provider; the (segment_index, input_index)
\* pairs are those of the storyboard positions, each once.
SameShape(t, o) ==
    /\ t.project_id = o.project_id
    /\ Len(t.segments) = Len(o.segments)
    /\ \A p \in 1..Len(o.segments) :
          /\ t.segments[p].segment_index = o.segments[p].segment_index
          /\ t.segments[p].segment_index = p - 1
          /\ t.segments[p].scene_description = o.segments[p].scene_description
          /\ Len(t.segments[p].generation_results)
                 = Len(o.segments[p].generation_results)
          /\ Len(t.segments[p].generation_results)
                 = Len(state[p].generation_inputs)
          /\ \A q \in 1..Len(o.segments[p].generation_results) :
                LET a == t.segments[p].generation_results[q]
                    b == o.segments[p].generation_results[q]
                IN  /\ a.input_index = b.input_index
                    /\ a.input_index = q - 1
                    /\ a.provider = b.provider
C9_ShapeStable ==
    /\ tree # NoTree => SameShape(tree, origin)
    /\ pc = "returned" => SameShape(result, origin)

\* C9 witness: after a first pass, a second pass returns a tree with two
\* segments in which one leaf has failed.
C9_Witness ==
    /\ pc = "returned"
    /\ passes >= 1
    /\ Len(result.segments) = 2
    /\ \E key \in LeafKeys(result) : OutputVideo(key).status = "failed"

\* C10: the pass leaves the tree it was given as it was: the caller's
\* snapshot and the argument object are equal throughout the pass and after
\* it, also when status checks or downloads failed.
C10_InputUnchanged ==
    InPass => video_generations = tree

\* C10 witness: a returned pass that refreshed a leaf, had a status check
\* raise and a download fail, so the returned tree differs from the input.
C10_Witness ==
    /\ pc = "returned"
    /\ result # video_generations
    /\ \E key \in DOMAIN status_results : status_results[key].raised
    /\ \E key \in DOMAIN download_results : download_results[key] # None

\* C12: whenever a pass returns a tree whose root status is completed, the
\* artifact file of every leaf of that tree is on disk, at the path of the
\* leaf's segment_index, input_index and video id.
C12_CompletedHasArtifacts ==
    (pc = "returned" /\ result.status = "completed") =>
        \A key \in LeafKeys(result) :
            exists(disk,
                   get_video_local_path(project_root, result.project_id,
                                        result.segments[key[1] + 1].segment_index,
                                        ResultAt(result, key).input_index,
                                        OutputVideo(key).id))

(***************************************************************************)
(* Properties of the orchestrator and the generation service               *)
(***************************************************************************)
Generating == pc \in {"loop", "batch", "generate_raised"}
SomeRaised == \E j \in 1..Len(batch_done) : batch_done[j][2].raised

\* C14: once the generate call of one input of a batch has raised,
\* generate_batch returns no result list, partial or not: the segment is
\* never appended, generate_videos_from_project ends by raising and no tree
\* is returned.
C14_BatchFailurePropagates ==
    /\ SomeRaised =>
          /\ pc \in {"batch", "generate_raised"}
          /\ tree = NoTree
          /\ origin = NoTree
    /\ pc = "generate_raised" => (SomeRaised /\ tree = NoTree)

\* C14 witness: the call has raised although another input of the same batch
\* had its job created.
C14_Witness ==
    /\ pc = "generate_raised"
    /\ \E j \in 1..Len(batch_done) : ~batch_done[j][2].raised
    /\ SomeRaised

\* C15: when generate_batch has returned, its k-th result carries the index
\* and the provider of the k-th input and the video that the generate call
\* of that input returned, in whatever order the calls finished.
C15_BatchPreservesOrigin ==
    (pc = "loop" /\ batch_inputs # <<>>) =>
        LET results == gen_segments[Len(gen_segments)].generation_results
        IN  /\ Len(results) = Len(batch_inputs)
            /\ \A k \in 1..Len(batch_inputs) :
                  /\ results[k].input_index = batch_inputs[k][2]
                  /\ results[k].provider = batch_inputs[k][1]
                  /\ \E j \in 1..Len(batch_done) :
                        /\ batch_done[j][1] = k
                        /\ results[k].video = batch_done[j][2].video
                  /\ results[k].video.id
                         = ProviderId(batch_inputs[k][1], Len(gen_segments) - 1,
                                      batch_inputs[k][2])

\* C15 witness: a batch of two inputs whose second call finished first.
C15_Witness ==
    /\ pc = "loop"
    /\ Len(batch_inputs) = 2
    /\ batch_done[1][1] = 2
    /\ batch_inputs[1][1] # batch_inputs[2][1]

\* C20: in every tree the caller holds and every tree a pass returns, each
\* leaf's video.created_at and the root created_at are those of the tree
\* generate_videos_from_project returned.
SameCreatedAt(t, o) ==
    /\ t.created_at = o.created_at
    /\ \A key \in LeafKeys(o) :
          ResultAt(t, key).video.created_at = ResultAt(o, key).video.created_at
C20_CreatedAtImmutable ==
    /\ tree # NoTree => SameCreatedAt(tree, origin)
    /\ pc = "returned" => SameCreatedAt(result, origin)

(***************************************************************************)
(* Properties of trees the caller may have written itself (SpecClient)     *)
(***************************************************************************)
\* The derivation rule as a function, in its priority order: all completed,
\* then any failed, then any queued or in_progress, then pending.
RuleStatus(statuses) ==
    IF statuses = <<>> THEN "pending"
    ELSE IF AllAre(statuses, "completed") THEN "completed"
    ELSE IF AnyIs(statuses, {"failed"}) THEN "failed"
    ELSE IF AnyIs(statuses, {"queued", "in_progress"}) THEN "in_progress"
    ELSE "pending"
LeafStatusesOf(segment) ==
    [q \in 1..Len(segment.generation_results) |->
        segment.generation_results[q].video.status]
DerivedConsistent(t) ==
    /\ \A p \in 1..Len(t.segments) :
          t.segments[p].status = RuleStatus(LeafStatusesOf(t.segments[p]))
    /\ t.status = RuleStatus([p \in 1..Len(t.segments) |-> t.segments[p].status])

\* C11: in the tree generate_videos_from_project returned and in every tree
\* a pass returns, each segment's status is the derivation rule applied to
\* its leaves' statuses in that tree and the root status is the rule applied
\* to its segments' statuses, whatever statuses the input tree stored.
C11_DerivedConsistent ==
    /\ origin # NoTree => DerivedConsistent(origin)
    /\ pc = "returned" => DerivedConsistent(result)

\* C11 witness: a pass returns for a posted tree whose stored segment and
\* root statuses were not those of its leaves, none of which was polled.
C11_Witness ==
    /\ pc = "returned"
    /\ origin = NoTree
    /\ ~DerivedConsistent(video_generations)
    /\ videos_to_check(video_generations) = {}
    /\ LeafKeys(video_generations) # {}
    /\ result.status # video_generations.status

\* C13: the file a pass checks for and downloads to, for every leaf of any
\* input tree, is the path made of the segment's segment_index field, the
\* leaf's input_index and the video id; a download that succeeded has put
\* the file there.
C13_PathConvention ==
    StatusDone =>
        \A key \in LeafKeys(video_generations) :
            /\ local_path_of(video_generations, updated_videos, key) = ArtifactPath(key)
            /\ (key \in DOMAIN download_results /\ download_results[key] = None)
                   => exists(disk, ArtifactPath(key))

(***************************************************************************)
(* Properties of duration snapping (SpecDerive)                            *)
(***************************************************************************)
\* n is an element of the supported list at the least distance from d.
Nearest(supported, d, n) ==
    /\ \E i \in 1..Len(supported) : supported[i] = n
    /\ \A i \in 1..Len(supported) : abs(n - d) <= abs(supported[i] - d)

\* C17: for every integer duration, each adapter's _validate_duration returns
\* an element of its supported set (Sora 4, 8, 12; Veo 4, 6, 8) at the least
\* absolute distance from it, and the duration itself when it is supported.
C17_AdapterSnapping ==
    (pc = "derived" /\ fn_name = "_validate_duration") =>
        LET supported == IF fn_input.provider = "sora" THEN <<4, 8, 12>> ELSE <<4, 6, 8>>
        IN  /\ Nearest(supported, fn_input.duration, fn_result)
            /\ (\E i \in 1..Len(supported) : supported[i] = fn_input.duration)
                   => fn_result = fn_input.duration

\* C17 witness: Sora asked for 6 seconds answers 4 or 8.
C17_Witness ==
    /\ pc = "derived"
    /\ fn_name = "_validate_duration"
    /\ fn_input = [provider |-> "sora", duration |-> 6]
    /\ fn_result \in {4, 8}

\* C18: for every integer segment duration and every provider, the duration
\* generate_videos_from_project has the provider's adapter submit is an
\* element of that provider's supported set at the least absolute distance
\* from the segment duration.
C18_EndToEndDuration ==
    (/\ pc = "derived"
     /\ fn_name = "generate_videos_from_project"
     /\ fn_input.duration_x2 % 2 = 0) =>
        Nearest(IF fn_input.provider = "sora" THEN <<4, 8, 12>> ELSE <<4, 6, 8>>,
                fn_input.duration_x2 \div 2, fn_result)

(***************************************************************************)
(* Properties of the generation service (SpecService)                      *)
(***************************************************************************)
\* C16: whatever calls are made on one service and however they interleave,
\* at most one adapter is constructed per provider, and every call for a
\* provider, in flight or finished, was delegated to that one instance, the
\* one the cache holds.
C16_AdapterCaching ==
    /\ \A provider_name \in ProviderNames :
          Cardinality({c \in svc_constructed : c[1] = provider_name}) <= 1
    /\ \A call \in svc_inflight :
          /\ call.provider \in DOMAIN svc_providers
          /\ call.instance = svc_providers[call.provider]
    /\ \A done \in svc_log :
          /\ done[1] \in DOMAIN svc_providers
          /\ done[2] = svc_providers[done[1]]

\* C16 witness: a finished call and two calls in flight of different methods,
\* one of them a generate_one task of a batch, all on the same provider.
C16_Witness ==
    \E c1, c2 \in svc_inflight :
        /\ c1.provider = c2.provider
        /\ c1.method # c2.method
        /\ c1.call[2] # 0
        /\ <<c1.provider, c1.instance>> \in svc_log

(***************************************************************************)
(* Properties of wait_for_completion (SpecWait)                            *)
(***************************************************************************)
\* C19: wait_for_completion returns only a completed or failed record, the
\* first one get_status gave; it raises the timeout error, carrying the
\* video id, after exactly ceil(timeout / poll_interval) polls that were all
\* non-terminal: the least n with n * poll_interval >= timeout; with
\* timeout <= 0 it raises without polling.  (When get_status itself raises,
\* nothing is claimed.)
C19_WaitResult ==
    pc = "waited" =>
        /\ wait_result.kind = "returned" =>
              wait_result.video.status \in {"completed", "failed"}
        /\ wait_result.kind = "timeout" =>
              /\ \A i \in 1..Len(fn_input.video_id) :
                    Contains(wait_result.error, fn_input.video_id[i])
              /\ IF ~Less(Zero, timeout) THEN polls = 0
                 ELSE /\ ~Less(exact_elapsed, timeout)
                      /\ Less(exact_elapsed, ExactAdd(timeout, poll_interval))

NoCredentials(provider_name) ==
    ProviderAuthenticationError(provider_name, KeyNotSet(provider_name))
C22_CredentialFailFast ==
    \A provider_name \in Providers :
        (\A c \in svc_calls : c.provider = provider_name => ~c.key_set) =>
            /\ provider_name \notin DOMAIN svc_providers
            /\ \A c \in svc_constructed : c[1] # provider_name
            /\ \A i \in svc_inflight : i.provider # provider_name
            /\ \A done \in svc_log : done[1] # provider_name
            /\ \A c \in svc_calls :
                  c.provider = provider_name => c.raised = NoCredentials(provider_name)

\* C22 witness: two calls were made, one after the other has ended, both
\* for Veo without credentials, and both raised.
C22_Witness ==
    /\ svc_issued = 2
    /\ svc_tasks = {}
    /\ svc_inflight = {}
    /\ svc_log = {}
    /\ svc_calls = {[provider |-> "veo", key_set |-> FALSE,
                     raised |-> NoCredentials("veo")]}

(***************************************************************************)
(* Properties of SoraProvider.get_status (SpecDerive)                      *)
(***************************************************************************)
\* C23: for every HTTP status of the API's response, get_status raises the
\* not-found error on 404, the authentication error on 401 and a request
\* error carrying the status code on every other status that is not 200; on
\* 200 it raises nothing and returns the record of the payload, also when the
\* payload's status is failed, the failure reason then being in error.
IsRaised(outcome, first_words) == outcome.raised /\ outcome.error[1] = first_words
DownloadStarted(key) == key \in download_pending \/ download_calls[key] > 0
\* The leaf's get_status call of this pass has returned completed.
PolledCompleted(key) ==
    /\ status_calls[key] = 1
    /\ key \in DOMAIN status_results
    /\ ~status_results[key].raised
    /\ status_results[key].video.status = "completed"

\* C24: in a pass, the download of a leaf starts only when every status
\* check of the pass has finished, and only for a leaf whose get_status call
\* of this pass returned completed or which was completed in the input tree
\* and had no get_status call.
C24_DownloadAfterStatus ==
    InPass =>
        \A key \in LeafKeys(video_generations) :
            DownloadStarted(key) =>
                /\ status_pending = {}
                /\ \A other \in videos_to_check(video_generations) :
                      status_calls[other] = 1
                /\ \/ PolledCompleted(key)
                   \/ /\ InputVideo(key).status = "completed"
                      /\ status_calls[key] = 0

\* C24 witness: one pass downloads a leaf that was completed in its input
\* tree and a leaf its own status check found completed.
C24_Witness ==
    /\ pc = "returned"
    /\ \E k1, k2 \in LeafKeys(video_generations) :
          /\ InputVideo(k1).status = "completed"
          /\ status_calls[k1] = 0
          /\ download_calls[k1] = 1
          /\ PolledCompleted(k2)
          /\ download_calls[k2] = 1

\* The record a leaf has in the returned tree, from that leaf's own inputs
\* alone: its record in the input tree, what its own status check gave (if
\* it had one) and what its own download returned (if it had one).
RefreshedBy(prior, checks, key) ==
    IF key \notin DOMAIN checks THEN prior
    ELSE IF ~checks[key].raised THEN checks[key].video
    ELSE IF checks[key].error = <<>> THEN prior
    ELSE [prior EXCEPT !.error = <<"Status check failed: ">> \o checks[key].error]
LeafOutcome(prior, checks, downloads, key) ==
    LET refreshed == RefreshedBy(prior, checks, key)
    IN  IF key \in DOMAIN downloads /\ downloads[key] \notin {None, <<>>}
        THEN [refreshed EXCEPT !.error = <<"Download failed: ">> \o downloads[key]]
        ELSE refreshed

\* C25: the tree a pass returns is the same in whatever order its status
\* checks and its downloads finished: each leaf is the record that follows
\* from the leaf's own input record, its own provider response and its own
\* download outcome, with its index and provider kept, and each segment
\* keeps its segment_index and scene_description.
C25_OrderIndependent ==
    pc = "returned" =>
        /\ Len(result.segments) = Len(video_generations.segments)
        /\ \A p \in 1..Len(video_generations.segments) :
              /\ result.segments[p].segment_index
                     = video_generations.segments[p].segment_index
              /\ result.segments[p].scene_description
                     = video_generations.segments[p].scene_description
              /\ Len(result.segments[p].generation_results)
                     = Len(video_generations.segments[p].generation_results)
        /\ \A key \in LeafKeys(video_generations) :
              /\ OutputVideo(key)
                     = LeafOutcome(InputVideo(key), status_results, download_results, key)
              /\ ResultAt(result, key).input_index
                     = ResultAt(video_generations, key).input_index
              /\ ResultAt(result, key).provider
                     = ResultAt(video_generations, key).provider

\* C25 witness: the second leaf's status check and download finished before
\* the first leaf's, the two providers having answered differently.
C25_Witness ==
    /\ pc = "returned"
    /\ Len(finished) = 4
    /\ \E k1, k2 \in LeafKeys(video_generations) :
          /\ KeyBefore(k1, k2)
          /\ finished = <<<<"status", k2>>, <<"status", k1>>,
                          <<"download", k2>>, <<"download", k1>>>>
          /\ download_results[k1] # download_results[k2]
          /\ ResultAt(video_generations, k1).provider
                 # ResultAt(video_generations, k2).provider

(***************************************************************************)
(* Properties across passes                                                *)
(***************************************************************************)
\* The order of the statuses: queued, then in_progress, then the terminal
\* ones, which are not ordered among themselves.
Forward(before, after) ==
    \/ after = before
    \/ before = "queued" /\ after \in {"in_progress", "completed", "failed"}
    \/ before = "in_progress" /\ after \in {"completed", "failed"}

\* C26: the status of a leaf in a tree a pass returns is the leaf's status in
\* the input tree or a later one in queued -> in_progress -> {completed,
\* failed}, and so is its status in each tree the caller holds after another;
\* a leaf that was in_progress is never queued afterwards.
C26_Step ==
    /\ pc' = "returned" =>
          \A key \in LeafKeys(video_generations') :
              Forward(ResultAt(video_generations', key).video.status,
                      ResultAt(result', key).video.status)
    /\ (tree # NoTree /\ tree' # NoTree) =>
          \A key \in LeafKeys(tree) :
              Forward(ResultAt(tree, key).video.status, ResultAt(tree', key).video.status)
C26_StatusMonotone == [][C26_Step]_vars

\* The leaf's download failed in an earlier pass: in the input tree it is
\* completed, has its video_url and carries a "Download failed" error.
DownloadHadFailed(key) ==
    /\ InputVideo(key).status = "completed"
    /\ Truthy(InputVideo(key).video_url)
    /\ Contains(InputVideo(key).error, "Download failed: ")

\* C27 as claimed: a pass over a tree in which a leaf's download had failed,
\* the artifact not being on disk, issues no get_status for that leaf and
\* does not attempt its download.
C27_NoDownloadRetry ==
    InPass =>
        \A key \in LeafKeys(video_generations) :
            (DownloadHadFailed(key) /\ ~exists(disk, ArtifactPath(key))) =>
                /\ status_calls[key] = 0
                /\ ~DownloadStarted(key)

\* C27 as amended: a pass attempts the download of a leaf at most once; a
\* pass over a tree in which a leaf's download had failed issues no
\* get_status for that leaf and, the artifact not being on disk when its
\* download phase began, attempts the download of that leaf again, once.
C27_RetryOnlyByNextPass ==
    InPass =>
        \A key \in LeafKeys(video_generations) :
            /\ download_calls[key] <= 1
            /\ DownloadHadFailed(key) =>
                  /\ status_calls[key] = 0
                  /\ (PassOver /\ ArtifactPath(key) \notin disk_before) =>
                        download_calls[key] = 1

\* C27 witness: the pass after a failed download has ended; it attempted the
\* download again and that failed again.
C27_Witness ==
    /\ pc = "returned"
    /\ passes >= 1
    /\ \E key \in LeafKeys(video_generations) :
          /\ DownloadHadFailed(key)
          /\ ArtifactPath(key) \notin disk_before
          /\ status_calls[key] = 0
          /\ download_calls[key] = 1
          /\ Contains(OutputVideo(key).error, "Download failed: ")

(***************************************************************************)
(* Properties of the orchestrator's batches                                *)
(***************************************************************************)
\* The segments generate_videos_from_project has appended so far, or
\* returned.
SegmentsBuilt ==
    IF pc \in {"loop", "batch", "generate_raised"} THEN gen_segments
    ELSE IF origin # NoTree THEN origin.segments
    ELSE <<>>
\* The storyboard positions the loop has reached: the segments built, and the
\* one whose batch is awaited or has raised.
Reached ==
    Len(SegmentsBuilt) + (IF pc \in {"batch", "generate_raised"} THEN 1 ELSE 0)
HasInputs(p) == state[p].generation_inputs # <<>>

\* C28: generate_batch is called in storyboard order, exactly once for each
\* segment reached that has generation inputs, with input_index the position
\* of each input, and never for a segment without inputs; a segment's batch
\* is called only when every earlier segment has been appended; the segments
\* built are one per storyboard segment reached, in order, with
\* segment_index their position, a segment without inputs being pending; the
\* returned tree has one segment per storyboard segment.
C28_OrchestratorBatching ==
    /\ \A i, j \in 1..Len(batch_calls) :
          i < j => batch_calls[i].segment_index < batch_calls[j].segment_index
    /\ {batch_calls[i].segment_index : i \in 1..Len(batch_calls)}
           = {p - 1 : p \in {q \in 1..Reached : HasInputs(q)}}
    /\ \A i \in 1..Len(batch_calls) :
          LET inputs == batch_calls[i].inputs
              segment == state[batch_calls[i].segment_index + 1]
          IN  /\ Len(inputs) = Len(segment.generation_inputs)
              /\ \A q \in 1..Len(inputs) :
                    inputs[q] = <<segment.generation_inputs[q], q - 1>>
              /\ batch_calls[i].segment_index <= Len(SegmentsBuilt)
              /\ batch_calls[i].segment_index = Len(SegmentsBuilt) =>
                    pc \in {"batch", "generate_raised"}
    /\ \A p \in 1..Len(SegmentsBuilt) :
          /\ SegmentsBuilt[p].segment_index = p - 1
          /\ SegmentsBuilt[p].scene_description = state[p].scene_description
          /\ Len(SegmentsBuilt[p].generation_results) = Len(state[p].generation_inputs)
          /\ ~HasInputs(p) => SegmentsBuilt[p].status = "pending"
          /\ \A q \in 1..Len(SegmentsBuilt[p].generation_results) :
                SegmentsBuilt[p].generation_results[q].input_index = q - 1
    /\ origin # NoTree => Len(origin.segments) = Len(state)

\* C28 witness: the tree was returned for a storyboard whose first segment
\* has no inputs and whose second has two; one batch was called.
C28_Witness ==
    /\ origin # NoTree
    /\ Len(origin.segments) = 2
    /\ origin.segments[1].status = "pending"
    /\ Len(origin.segments[2].generation_results) = 2
    /\ Len(batch_calls) = 1
    /\ batch_calls[1].segment_index = 1

(***************************************************************************)
(* Properties of the artifact files                                        *)
(***************************************************************************)
\* Every call of the pass succeeded: no status check raised and no download
\* returned an error.
AllCallsSucceeded ==
    /\ \A key \in DOMAIN status_results : ~status_results[key].raised
    /\ \A key \in DOMAIN download_results : download_results[key] = None

\* C29: a file that a pass finds on disk, and therefore does not download,
\* is a complete artifact; and when a pass in which every provider and
\* download call succeeded returns, whatever happened in earlier passes
\* (a crash at any point included), every leaf that is completed and has a
\* video_url has its complete artifact file on disk.
C29_CrashSafeResume ==
    /\ StatusDone =>
          \A key \in LeafKeys(video_generations) :
              ArtifactPath(key) \in disk_before => disk[ArtifactPath(key)] = "full"
    /\ (pc = "returned" /\ AllCallsSucceeded) =>
          \A key \in LeafKeys(result) :
              (OutputVideo(key).status = "completed" /\ Truthy(OutputVideo(key).video_url))
                  => /\ exists(disk, ArtifactPath(key))
                     /\ disk[ArtifactPath(key)] = "full"

\* The artifact path of leaf key of tree t, as a pass over t computes it.
PathIn(t, key) ==
    get_video_local_path(project_root, t.project_id, key[1],
                         ResultAt(t, key).input_index, ResultAt(t, key).video.id)
DistinctPaths(t) ==
    \A k1, k2 \in LeafKeys(t) : k1 # k2 => PathIn(t, k1) # PathIn(t, k2)

\* C30: in the tree generate_videos_from_project returned, in every tree the
\* caller holds and in every tree a pass returns, two distinct leaves have
\* distinct artifact paths; and the downloads of one pass all write to
\* different files.
C30_CollisionFree ==
    /\ origin # NoTree => DistinctPaths(origin)
    /\ tree # NoTree => DistinctPaths(tree)
    /\ pc = "returned" => DistinctPaths(result)
    /\ StatusDone =>
          \A k1, k2 \in LeafKeys(video_generations) :
              (k1 # k2 /\ (DownloadStarted(k1) \/ DownloadStarted(k2))) =>
                  local_path_of(video_generations, updated_videos, k1)
                      # local_path_of(video_generations, updated_videos, k2)

\* C30 witness: one pass downloaded two leaves that have the same input_index
\* in different segments, and both files are on disk.
C30_Witness ==
    /\ pc = "returned"
    /\ \E k1, k2 \in LeafKeys(video_generations) :
          /\ k1[1] # k2[1]
          /\ k1[2] = k2[2]
          /\ download_calls[k1] = 1
          /\ download_calls[k2] = 1
          /\ exists(disk, PathIn(result, k1))
          /\ exists(disk, PathIn(result, k2))

\* C31: every download request of a pass carries the Authorization header
\* "Bearer <OPENAI_API_KEY>" if and only if its leaf's provider is sora and the
\* key is set; the request for a veo leaf has no header at all, whatever the
\* url it is sent to.
C31_DownloadCredentialScoping ==
    \A key \in DOMAIN download_requests :
        LET res == ResultAt(video_generations, key)
            headers == download_requests[key].headers
        IN  /\ "Authorization" \in DOMAIN headers
                   <=> (res.provider = "sora" /\ Truthy(openai_api_key))
            /\ "Authorization" \in DOMAIN headers
                   => headers["Authorization"] = <<"Bearer ">> \o openai_api_key
            /\ res.provider = "veo" => headers = NoHeaders

\* With the key set, one pass has sent two download requests: one for a sora
\* leaf, which carries the key, and one for a veo leaf whose video_url is on
\* the OpenAI host, which carries no header.
C31_Witness ==
    /\ pc = "download"
    /\ openai_api_key = ConfiguredKey
    /\ \E k1, k2 \in DOMAIN download_requests :
          /\ ResultAt(video_generations, k1).provider = "sora"
          /\ "Authorization" \in DOMAIN download_requests[k1].headers
          /\ ResultAt(video_generations, k2).provider = "veo"
          /\ SubSeq(download_requests[k2].url, 1, Len(BASE_URL)) = BASE_URL
          /\ download_requests[k2].headers = NoHeaders

\* C39: the tree a pass returns has, in every leaf, the selected flag the
\* leaf had in the tree the pass was given, refreshed or not.
C39_SelectedPreserved ==
    pc = "returned" =>
        \A key \in LeafKeys(video_generations) :
            OutputVideo(key).selected = InputVideo(key).selected

\* The files that existed when the running pass began: nothing writes to the
\* disk before the download phase.
FilesAtStart == IF pc = "status" THEN DOMAIN disk ELSE disk_before
\* The tree the running pass was given has nothing left to do: every leaf is
\* completed or failed, the file of every completed leaf with a video_url
\* exists, and the stored segment and root statuses are the derived ones.
Settled(key) ==
    /\ IsTerminal(InputVideo(key).status)
    /\ (InputVideo(key).status = "completed" /\ Truthy(InputVideo(key).video_url))
           => local_path_of(video_generations, EmptyMap, key) \in FilesAtStart
FixpointInput ==
    /\ InPass
    /\ DerivedConsistent(video_generations)
    /\ \A key \in LeafKeys(video_generations) : Settled(key)

C34_RootAbsorbing ==
    pc = "returned" =>
        /\ IsTerminal(video_generations.status)
               => result.status = video_generations.status
        /\ \A p \in 1..Len(video_generations.segments) :
              IsTerminal(video_generations.segments[p].status)
                  => result.segments[p].status = video_generations.segments[p].status

\* The second pass, over the tree the first pass returned with root status
\* failed while a leaf was still running: that leaf is now completed and the
\* root is failed as before.
C34_Witness ==
    /\ pc = "returned"
    /\ passes >= 1
    /\ tree = video_generations
    /\ tree # origin
    /\ video_generations.status = "failed"
    /\ result.status = "failed"
    /\ \E key \in LeafKeys(video_generations) :
          /\ ~IsTerminal(InputVideo(key).status)
          /\ OutputVideo(key).status = "completed"

\* C35: in the tree a pass returns, a leaf whose file is on disk because its
\* download succeeded carries no error that contains "Download failed".
DownloadSucceeded(key) ==
    /\ key \in DOMAIN download_results
    /\ download_results[key] = None
    /\ disk[local_path_of(video_generations, updated_videos, key)] = "full"
C35_ErrorReflectsDisk ==
    pc = "returned" =>
        \A key \in LeafKeys(video_generations) :
            DownloadSucceeded(key)
                => ~Contains(OutputVideo(key).error, "Download failed: ")

\* The ids of the jobs the providers created in this run of
\* generate_videos_from_project: those of the segments built so far and those
\* of the generate_one tasks of the running batch that returned a record.
LeafIds(segments) ==
    UNION {{segments[p].generation_results[q].video.id :
                q \in 1..Len(segments[p].generation_results)}
              : p \in 1..Len(segments)}
CreatedIds ==
    LeafIds(gen_segments)
    \cup {batch_done[j][2].video.id :
             j \in {i \in 1..Len(batch_done) : ~batch_done[i][2].raised}}
HandedBack == IF origin = NoTree THEN {} ELSE LeafIds(origin.segments)

\* C38: when generate_videos_from_project raises, no job it created at a
\* provider is missing from what the caller was handed.
C38_NoOrphans ==
    pc = "generate_raised" => CreatedIds \subseteq HandedBack

\* C36: for an operation that is done, VeoProvider.get_status returns a
\* record whose status is completed or failed.
C36_VeoTerminalReporting ==
    (pc = "derived" /\ fn_name = "VeoProvider.get_status" /\ fn_input.reply.done) =>
        /\ ~fn_result.raised
        /\ IsTerminal(fn_result.video.status)

\* C37: every wait_for_completion call eventually returns a record or raises.
C37_WaitTerminates == <>(wait_result # Waiting)

\* C32: when every status check is answered with a completed or failed
\* record and the caller keeps polling, the root status of the tree the
\* caller holds is eventually completed or failed (unless
\* generate_videos_from_project raised and returned no tree).
C32_Convergence ==
    <>(pc = "generate_raised" \/ (tree # NoTree /\ IsTerminal(tree.status)))
====
